---- MODULE Spec2Model ----
(***************************************************************************)
(* A model of the hedge orchestration engine of cs-projects-backpack       *)
(* (package strategy): the position ledger (PositionManager), the order    *)
(* registry (OrderManager), the risk evaluator (RiskManager.CheckRisk),    *)
(* the balance reconciler (HedgeBalancer), the order tracker               *)
(* (OrderMonitor) and the control loop (DynamicHedgeStrategy).             *)
(*                                                                         *)
(* Numbers.  Go's float64 amounts are integers here: position values and   *)
(* order sizes are whole USDT amounts, all multiples of 200, so that the   *)
(* halves the reconciler takes are exact.  A leverage is kept in           *)
(* thousandths (3000 is 3.0x): CalculateTotalLeverage divides a total by   *)
(* the account equity of 1000, so the thousandths of the quotient are the  *)
(* total itself and every comparison against a threshold is exact.  Time   *)
(* is a tick counter.                                                      *)
(***************************************************************************)
EXTENDS Integers, Sequences, FiniteSets, TLC

\* ------------------------------------------------------------------ bounds

\* The clock stops advancing at MaxTime ticks.
MaxTime == 3
\* At most MaxOrders order objects are ever allocated.
MaxOrders == 2
\* A calendar day lasts TicksPerDay ticks.
TicksPerDay == 2
\* At most MaxReaders goroutines are inside a read section of the ledger.
MaxReaders == 1

\* ------------------------------------------------------- program constants

\* NewHedgeBalancer: tolerancePercent 5.0, minAdjustAmount 50.0
DefaultTolerancePercent == 5
DefaultMinAdjustAmount == 50
\* CalculateTotalLeverage: the assumed account equity
AccountEquity == 1000
\* FastExecutionConfig.MaxRetryAttempts
MaxRetryAttempts == 3

Symbols == {"BTC", "ETH"}
Venues == {"lighter", "binance"}
\* The reconciler and the reports visit BTC first, then ETH.
SymbolOrder == <<"BTC", "ETH">>

Abs(x) == IF x < 0 THEN -x ELSE x
Min(a, b) == IF a < b THEN a ELSE b
\* max (risk_manager.go)
max(a, b) == IF a > b THEN a ELSE b

\* Go maps as functions whose domain is the set of keys present.
EmptyMap == [k \in {} |-> 0]
MapPut(m, k, v) == [x \in (DOMAIN m) \cup {k} |-> IF x = k THEN v ELSE m[x]]
MapDel(m, k) == [x \in (DOMAIN m) \ {k} |-> m[x]]

RECURSIVE SumOver(_, _)
\* The sum of f[k] over the keys k in S.
SumOver(f, S) ==
    IF S = {} THEN 0
    ELSE LET k == CHOOSE x \in S : TRUE
         IN f[k] + SumOver(f, S \ {k})

VARIABLES
    ledger,         \* PositionManager: venue -> ExchangePositions
    pmReaders,      \* goroutines inside an RLock section of PositionManager.mu
    held,           \* what a caller got from GetLighterPositions / GetBinancePositions
    heldSeen,       \* the ExchangePositions that caller read when it got it
    lastRisk,       \* the previous CheckRisk: the ledger it read, what it returned
    stopBand,       \* the run of cycles in the stop band: since when, whether escalated
    hedgeLog,       \* per order id, the partial fills the tracker saw and the sizes it hedged
    hb,             \* HedgeBalancer: tolerancePercent, minAdjustAmount
    heap,           \* the ActiveOrder objects, by address
    activeOrders,   \* OrderManager.activeOrders: order id -> address
    snapshot,       \* a map returned by GetActiveOrders, held by an observer
    snapshotSeen,   \* the orders that observer read through it at once
    config,         \* the DynamicHedgeConfig given to Start
    currentPhase,   \* DynamicHedgeStrategy.currentPhase
    lastStopTime,   \* DynamicHedgeStrategy.lastStopTime
    lastTradeTime,  \* DynamicHedgeStrategy.lastTradeTime
    stats,          \* TradingStatsManager.stats
    monitor,        \* the tracker's loop: running, or stopped once it returned
    loop,           \* the control loop: running, or stopped once it returned
    ctx,            \* the context given to Start: live or cancelled
    life,           \* isRunning of the strategy and of the tracker, how often each
                    \* stop channel was closed, whether a call panicked
    now,            \* the clock
    placed,         \* the venue calls made by the last operation, in order
    lastOp          \* the last operation and what it returned

ledgerVars == <<ledger, pmReaders, held, heldSeen, lastRisk, stopBand, hedgeLog>>
orderVars == <<heap, activeOrders, snapshot, snapshotSeen>>
ctlVars == <<config, currentPhase, lastStopTime, lastTradeTime, stats, hb, monitor, loop, ctx, life>>
vars == <<ledger, pmReaders, held, heldSeen, lastRisk, stopBand, hedgeLog, hb, heap, activeOrders, snapshot,
          snapshotSeen, config, currentPhase, lastStopTime, lastTradeTime,
          stats, monitor, loop, ctx, life, now, placed, lastOp>>

\* -------------------------------------------------------------- the ledger

\* Position (interface.go): Size is signed (long > 0, short < 0), Value is
\* the notional.  The Symbol is the map key; Position.Leverage is only logged.
Position(size, value) == [Size |-> size, Value |-> value]

\* NewPositionManager: both venues start with an empty map and leverage 0.
NewPositionManager ==
    [v \in Venues |-> [Positions |-> EmptyMap, Leverage |-> 0]]

\* GetLighterPositions / GetBinancePositions return the pointer the manager
\* holds: the caller gets the live ExchangePositions, not a copy.
GetPositions(v) == [kind |-> "ref", venue |-> v, value |-> NewPositionManager[v]]
GetLighterPositions == GetPositions("lighter")
GetBinancePositions == GetPositions("binance")

\* What is read through a value returned by GetPositions, in ledger state l.
\* What a caller holds before it has called a getter: nothing of the ledger.
NoPositions == [kind |-> "none", venue |-> "lighter", value |-> NewPositionManager["lighter"]]

DerefIn(l, h) == IF h.kind = "ref" THEN l[h.venue] ELSE h.value
Deref(h) == DerefIn(ledger, h)

\* pm.<venue>Positions.Positions[symbol] = position, under pm.mu.Lock().
UpdatePositionIn(l, v, symbol, position) ==
    [l EXCEPT ![v].Positions = MapPut(@, symbol, position)]

\* The sum of |Value| over a venue's positions, over the equity, in thousandths.
TotalLeverage(ep) ==
    (SumOver([s \in DOMAIN ep.Positions |-> Abs(ep.Positions[s].Value)],
             DOMAIN ep.Positions) * 1000) \div AccountEquity

\* CalculateTotalLeverage, on ledger state l.
CalculateTotalLeverageIn(l) ==
    [v \in Venues |-> [l[v] EXCEPT !.Leverage = TotalLeverage(l[v])]]

\* allPositionsZero (RiskManager, DynamicHedgeStrategy, ClosingManager): no
\* position of either venue has a non-zero Size.
allPositionsZeroIn(l) ==
    \A v \in Venues : \A s \in DOMAIN l[v].Positions : l[v].Positions[s].Size = 0

\* ---------------------------------------------------------- the reconciler

\* getPositionValue: the Value of the symbol's position, 0 when absent.
getPositionValue(positions, symbol) ==
    IF symbol \in DOMAIN positions.Positions
    THEN positions.Positions[symbol].Value
    ELSE 0

\* The tolerance test that also holds at the tolerance itself.
PercentReaches(absImbalance, expected2, tolerance) ==
    IF expected2 > 0
    THEN absImbalance * 100 * 2 >= tolerance * expected2
    ELSE 0 >= tolerance

\* imbalance.ImbalancePercent > tolerance, with ImbalancePercent =
\* |actualImbalance| / expectedBalance * 100 when expectedBalance > 0 and 0
\* otherwise; expected2 is twice the expected balance.
PercentExceeds(absImbalance, expected2, tolerance) ==
    IF expected2 > 0
    THEN absImbalance * 100 * 2 > tolerance * expected2
    ELSE 0 > tolerance

\* The choice of side that adjusts the venue with the larger position.
AdjustmentSideOfLarger(symbol, lighterPos, binancePos) ==
    IF Abs(lighterPos) > Abs(binancePos)
    THEN (IF symbol = "BTC" THEN "LIGHTER_INCREASE_LONG" ELSE "LIGHTER_INCREASE_SHORT")
    ELSE (IF symbol = "BTC" THEN "BINANCE_INCREASE_SHORT" ELSE "BINANCE_INCREASE_LONG")

\* The adjustment side checkSymbolBalance picks.
AdjustmentSideOf(symbol, lighterPos, binancePos) ==
    IF Abs(lighterPos) > Abs(binancePos)
    THEN (IF symbol = "BTC" THEN "BINANCE_INCREASE_SHORT" ELSE "BINANCE_INCREASE_LONG")
    ELSE (IF symbol = "BTC" THEN "LIGHTER_INCREASE_LONG" ELSE "LIGHTER_INCREASE_SHORT")

\* checkSymbolBalance
checkSymbolBalance(b, symbol, lighterPositions, binancePositions) ==
    LET lighterPos == getPositionValue(lighterPositions, symbol)
        binancePos == getPositionValue(binancePositions, symbol)
        expected2 == Abs(lighterPos) + Abs(binancePos)
        actualImbalance == Abs(lighterPos) - Abs(binancePos)
        needs == PercentExceeds(Abs(actualImbalance), expected2, b.tolerancePercent)
                 /\ Abs(actualImbalance) > b.minAdjustAmount
    IN [Symbol |-> symbol,
        LighterPosition |-> lighterPos,
        BinancePosition |-> binancePos,
        ExpectedBalance |-> expected2 \div 2,
        ActualImbalance |-> actualImbalance,
        ImbalancePercent |-> IF expected2 > 0
                             THEN (Abs(actualImbalance) * 100 * 2) \div expected2
                             ELSE 0,
        NeedsAdjustment |-> needs,
        AdjustmentSide |-> IF needs
                           THEN AdjustmentSideOf(symbol, lighterPos, binancePos)
                           ELSE "",
        AdjustmentAmount |-> IF needs THEN Abs(actualImbalance) \div 2 ELSE 0]

\* CheckHedgeBalance, on ledger state l: the imbalances that need an
\* adjustment, BTC before ETH.
CheckHedgeBalanceIn(b, l) ==
    LET lp == DerefIn(l, GetLighterPositions)
        bp == DerefIn(l, GetBinancePositions)
        imb == [i \in 1..2 |-> checkSymbolBalance(b, SymbolOrder[i], lp, bp)]
        needing == SelectSeq(imb, LAMBDA x : x.NeedsAdjustment)
    IN [IsBalanced |-> needing = <<>>,
        Imbalances |-> needing,
        TotalImbalanceValue |->
            SumOver([i \in 1..Len(needing) |-> Abs(needing[i].AdjustmentAmount)],
                    1..Len(needing))]

\* ------------------------------------------------- venue calls (external)

\* The instrument and direction of each venue-client method.
MethodSymbol(method) ==
    IF method \in {"PlaceBTCShort", "PlaceBTCLong"} THEN "BTC" ELSE "ETH"
MethodSide(method) ==
    IF method \in {"PlaceBTCLong", "PlaceETHLong"} THEN "BUY" ELSE "SELL"

\* One call of a venue client: binance PlaceBTCShort / PlaceETHLong (resting
\* limit orders), lighter PlaceBTCLong / PlaceETHShort (market orders).  ok is
\* the venue's answer, which the program does not control.
VenueCall(venue, method, amount, ok) ==
    [venue |-> venue, method |-> method, symbol |-> MethodSymbol(method),
     side |-> MethodSide(method), amount |-> amount, ok |-> ok]

\* ------------------------------------------- the state an operation works on

\* No attempt of a hedge order was made.
NoRetry == [attempts |-> 0, result |-> ""]

\* The fields an operation of the strategy reads and writes; writes is the
\* record of the writes made to a venue's symbol-to-position map, hedges that
\* of the invocations of a hedge executor, retry the attempts of the hedge
\* executor's last invocation and how they ended, checked the orders a tick of
\* the tracker went through.
St ==
    [ledger |-> ledger, hb |-> hb, phase |-> currentPhase,
     heap |-> heap, activeOrders |-> activeOrders, stats |-> stats,
     lastStopTime |-> lastStopTime, lastTradeTime |-> lastTradeTime,
     placed |-> <<>>, writes |-> <<>>, hedges |-> <<>>, retry |-> NoRetry,
     checked |-> <<>>]

\* The operation's result becomes the next state.
Commit(st) ==
    /\ ledger' = st.ledger
    /\ hb' = st.hb
    /\ currentPhase' = st.phase
    /\ heap' = st.heap
    /\ activeOrders' = st.activeOrders
    /\ stats' = st.stats
    /\ lastStopTime' = st.lastStopTime
    /\ lastTradeTime' = st.lastTradeTime
    /\ placed' = st.placed

\* What an operation returned: the state it left and whether it returned an error.
Ret(st, err) == [st |-> st, err |-> err]

\* setPhase: currentPhase and the statistics' CurrentPhase.
setPhase(st, phase) ==
    [st EXCEPT !.phase = phase, !.stats.CurrentPhase = phase]

\* ------------------------------------------------ the reconciler's orders

\* increaseBinanceShort / increaseBinanceLong / increaseLighterLong /
\* increaseLighterShort, reached through adjustSymbolBalance's switch: the one
\* venue call of an adjustment, or none and an error for a symbol the side
\* does not support.  The Lighter amounts are int64(amount).
adjustSymbolBalance(st, imbalance, ok) ==
    LET side == imbalance.AdjustmentSide
        symbol == imbalance.Symbol
        amount == imbalance.AdjustmentAmount
        call ==
            IF side = "BINANCE_INCREASE_SHORT" /\ symbol = "BTC"
              THEN <<VenueCall("binance", "PlaceBTCShort", amount, ok)>>
            ELSE IF side = "BINANCE_INCREASE_LONG" /\ symbol = "ETH"
              THEN <<VenueCall("binance", "PlaceETHLong", amount, ok)>>
            ELSE IF side = "LIGHTER_INCREASE_LONG" /\ symbol = "BTC"
              THEN <<VenueCall("lighter", "PlaceBTCLong", amount, ok)>>
            ELSE IF side = "LIGHTER_INCREASE_SHORT" /\ symbol = "ETH"
              THEN <<VenueCall("lighter", "PlaceETHShort", amount, ok)>>
            ELSE <<>>
    IN Ret([st EXCEPT !.placed = @ \o call], call = <<>> \/ ~ok)

RECURSIVE adjustAll(_, _, _)
\* The loop of ExecuteBalanceAdjustment: the imbalances in order, stopping
\* at the first adjustment that fails.
adjustAll(st, imbalances, oracle) ==
    IF imbalances = <<>> THEN Ret(st, FALSE)
    ELSE LET r == adjustSymbolBalance(st, Head(imbalances), oracle[Head(imbalances).Symbol])
         IN IF r.err THEN r ELSE adjustAll(r.st, Tail(imbalances), oracle)

\* ExecuteBalanceAdjustment
ExecuteBalanceAdjustment(st, status, oracle) ==
    IF status.IsBalanced THEN Ret(st, FALSE)
    ELSE adjustAll(st, status.Imbalances, oracle)

\* SetBalanceTolerance / SetMinAdjustAmount when the configured value is > 0.
ConfigureBalancer(b, cfg) ==
    [tolerancePercent |-> IF cfg.BalanceTolerance > 0
                          THEN cfg.BalanceTolerance ELSE b.tolerancePercent,
     minAdjustAmount |-> IF cfg.MinBalanceAdjust > 0
                         THEN cfg.MinBalanceAdjust ELSE b.minAdjustAmount]

\* checkAndAdjustHedgeBalance: one reconciliation pass.  oracle gives, per
\* symbol, whether the venue accepts that symbol's adjustment order.
checkAndAdjustHedgeBalance(st, cfg, oracle) ==
    LET st1 == [st EXCEPT !.hb = ConfigureBalancer(st.hb, cfg)]
        balanceStatus == CheckHedgeBalanceIn(st1.hb, st1.ledger)
    IN IF ~balanceStatus.IsBalanced /\ Len(balanceStatus.Imbalances) > 0
       THEN LET st2 == setPhase(st1, "BALANCE_ADJUSTING")
                r == ExecuteBalanceAdjustment(st2, balanceStatus, oracle)
            IN IF r.err THEN r
               ELSE Ret(setPhase(r.st, "BALANCE_ADJUSTED"), FALSE)
       ELSE Ret(st1, FALSE)

\* ------------------------------------------------------ the order registry

\* ActiveOrder (interface.go).  The registry's map holds pointers: an order
\* object lives in heap at an address, and the maps hold addresses.
ActiveOrder(id, exchange, symbol, side, size, t) ==
    [ID |-> id, Exchange |-> exchange, Symbol |-> symbol, Side |-> side,
     Size |-> size, Price |-> 0, Status |-> "PENDING", FilledSize |-> 0,
     CreatedAt |-> t, UpdatedAt |-> t]

\* The address a newly made order object gets.
NewAddr(st) == Cardinality(DOMAIN st.heap) + 1

\* &ActiveOrder{...}: a new order object.
Alloc(st, order) == [st EXCEPT !.heap = MapPut(@, NewAddr(st), order)]

\* AddOrder: om.activeOrders[order.ID] = order, for the object at addr.
AddOrderIn(st, addr) ==
    [st EXCEPT !.activeOrders = MapPut(@, st.heap[addr].ID, addr)]

\* GetActiveOrders: a new map with the same keys and the same pointers.
GetActiveOrdersIn(st) == [id \in DOMAIN st.activeOrders |-> st.activeOrders[id]]

\* UpdateOrderStatus with the removal left out.
UpdateOrderStatusNoRemove(st, orderID, status, filledSize, t) ==
    IF orderID \in DOMAIN st.activeOrders
    THEN [st EXCEPT !.heap[st.activeOrders[orderID]] =
                        [@ EXCEPT !.Status = status, !.FilledSize = filledSize,
                                  !.UpdatedAt = t]]
    ELSE st

\* UpdateOrderStatus: when the order is in the map, its object's Status,
\* FilledSize and UpdatedAt are set, and on FILLED or CANCELLED the entry is
\* deleted, all under one om.mu.Lock().
UpdateOrderStatusIn(st, orderID, status, filledSize, t) ==
    IF orderID \in DOMAIN st.activeOrders
    THEN LET addr == st.activeOrders[orderID]
             st1 == [st EXCEPT !.heap[addr] =
                        [@ EXCEPT !.Status = status, !.FilledSize = filledSize,
                                  !.UpdatedAt = t]]
         IN IF status = "FILLED" \/ status = "CANCELLED"
            THEN [st1 EXCEPT !.activeOrders = MapDel(@, orderID)]
            ELSE st1
    ELSE st

\* RemoveOrder: delete(om.activeOrders, orderID).
RemoveOrderIn(st, orderID) == [st EXCEPT !.activeOrders = MapDel(@, orderID)]

\* The orders read through a map of pointers m, in heap h.
ReadThrough(h, m) == [id \in DOMAIN m |-> h[m[id]]]

\* The calendar day of time t.
DayOf(t) == t \div TicksPerDay
\* isSameDay
isSameDay(t1, t2) == DayOf(t1) = DayOf(t2)

\* The zero time.Time.
ZeroTime == -1

\* ------------------------------------------------------ the risk evaluator

\* RiskStatus
RiskStatus(action, lighterLeverage, binanceLeverage, reason, t) ==
    [Action |-> action, LighterLeverage |-> lighterLeverage,
     BinanceLeverage |-> binanceLeverage,
     MaxLeverage |-> max(lighterLeverage, binanceLeverage),
     Reason |-> reason, Timestamp |-> t]

\* shouldStartClosing, as an evaluation that compares the time since opening
\* was stopped with the stop duration would be.
shouldStartClosingAfterStop(cfg, st, t) == t - st.lastStopTime > cfg.StopDuration

\* shouldStartClosing: returns false.
shouldStartClosing(cfg, st, t) == FALSE

\* CheckRisk with the thresholds compared by > .
CheckRiskStrict(st, cfg, t) ==
    LET lighterLeverage == DerefIn(st.ledger, GetLighterPositions).Leverage
        binanceLeverage == DerefIn(st.ledger, GetBinancePositions).Leverage
        maxLeverage == max(lighterLeverage, binanceLeverage)
    IN IF maxLeverage > cfg.EmergencyLeverage
       THEN RiskStatus("EMERGENCY_CLOSE", lighterLeverage, binanceLeverage,
                       "Leverage exceeded emergency threshold", t)
       ELSE IF maxLeverage > cfg.MaxLeverage
       THEN RiskStatus("STOP_OPENING", lighterLeverage, binanceLeverage,
                       "Leverage exceeded max threshold", t)
       ELSE RiskStatus("CONTINUE_OPENING", lighterLeverage, binanceLeverage,
                       "Normal trading conditions", t)

\* CheckRisk, at time t.
CheckRisk(st, cfg, t) ==
    LET lighterLeverage == DerefIn(st.ledger, GetLighterPositions).Leverage
        binanceLeverage == DerefIn(st.ledger, GetBinancePositions).Leverage
        maxLeverage == max(lighterLeverage, binanceLeverage)
    IN IF maxLeverage >= cfg.EmergencyLeverage
       THEN RiskStatus("EMERGENCY_CLOSE", lighterLeverage, binanceLeverage,
                       "Leverage exceeded emergency threshold", t)
       ELSE IF maxLeverage >= cfg.MaxLeverage
       THEN IF shouldStartClosing(cfg, st, t)
            THEN RiskStatus("START_CLOSING", lighterLeverage, binanceLeverage,
                            "Stop duration exceeded, starting to close positions", t)
            ELSE RiskStatus("STOP_OPENING", lighterLeverage, binanceLeverage,
                            "Leverage exceeded max threshold", t)
       ELSE IF allPositionsZeroIn(st.ledger)
       THEN RiskStatus("CONTINUE_OPENING", lighterLeverage, binanceLeverage,
                       "All positions are zero, ready to open new positions", t)
       ELSE RiskStatus("CONTINUE_OPENING", lighterLeverage, binanceLeverage,
                       "Normal trading conditions", t)

\* No evaluation was made yet.
NoRisk == [evaluated |-> FALSE]

\* ------------------------------------------------------ the opening manager

\* A write of a venue's symbol-to-position map: by whom, whether pm.mu was
\* held exclusively, and how many readers were inside a read section.
MapWrite(v, symbol, by, locked) ==
    [venue |-> v, symbol |-> symbol, by |-> by, locked |-> locked,
     readers |-> pmReaders]

\* The position read for symbol through h: the entry, or the empty position
\* ensurePosition makes when there is none.
PositionOrEmpty(st, h, symbol) ==
    LET ep == DerefIn(st.ledger, h)
    IN IF symbol \in DOMAIN ep.Positions THEN ep.Positions[symbol]
       ELSE Position(0, 0)

\* ensurePosition (OpeningManager, ClosingManager): when the symbol has no
\* entry, positions.Positions[symbol] = newPos on the value the getter
\* returned, with no lock held.
ensurePosition(st, h, symbol, by) ==
    IF symbol \in DOMAIN DerefIn(st.ledger, h).Positions THEN st
    ELSE IF h.kind = "ref"
         THEN [st EXCEPT
                 !.ledger = UpdatePositionIn(@, h.venue, symbol, Position(0, 0)),
                 !.writes = Append(@, MapWrite(h.venue, symbol, by, FALSE))]
         ELSE st

\* placeBinanceMakerOrder: the venue method for (symbol, side), "" when the
\* pair is not supported.
MakerMethod(symbol, side) ==
    IF symbol = "BTC" /\ side = "SELL" THEN "PlaceBTCShort"
    ELSE IF symbol = "ETH" /\ side = "BUY" THEN "PlaceETHLong"
    ELSE ""

\* Place a maker order through method and, when the venue accepts it, register
\* it as a PENDING order of the given symbol, side and size: the common body
\* of executeOpeningSequence and executeClosingSequence.  answer is the
\* venue's: whether it accepted, and the order id it gave.
PlaceAndRegister(st, method, symbol, side, size, spread, answer, t) ==
    IF method = "" THEN Ret(st, TRUE)
    ELSE LET st1 == [st EXCEPT !.placed =
                        Append(@, VenueCall("binance", method, size, answer.ok))]
         IN IF ~answer.ok THEN Ret(st1, TRUE)
            ELSE LET st2 == Alloc(st1, ActiveOrder(answer.id, "binance", symbol,
                                                    side, size, t))
                 IN Ret(AddOrderIn(st2, NewAddr(st1)), FALSE)

\* The opening sequence that places the taker venue's order at once.
executeOpeningSequenceWithTaker(st, cfg, symbol, binanceSide, answer, t) ==
    PlaceAndRegister(
        [st EXCEPT !.placed = Append(@, VenueCall("lighter",
                                  IF symbol = "BTC" THEN "PlaceBTCLong" ELSE "PlaceETHShort",
                                  cfg.OrderSize, TRUE))],
        MakerMethod(symbol, binanceSide), symbol, binanceSide, cfg.OrderSize, 0, answer, t)

\* executeOpeningSequence
executeOpeningSequence(st, cfg, symbol, binanceSide, answer, t) ==
    PlaceAndRegister(st, MakerMethod(symbol, binanceSide), symbol, binanceSide,
                     cfg.OrderSize, 0, answer, t)

\* The selection that compares the signed sizes.
OpeningTargetSigned(btcPos, ethPos) ==
    IF btcPos.Size <= ethPos.Size THEN "BTC" ELSE "ETH"

\* The symbol the opening manager selects: BTC when |BTC size| <= |ETH size|.
OpeningTarget(btcPos, ethPos) ==
    IF Abs(btcPos.Size) <= Abs(ethPos.Size) THEN "BTC" ELSE "ETH"

\* ExecuteOpeningLogic
ExecuteOpeningLogic(st, cfg, answer, t) ==
    LET binancePositions == GetBinancePositions
        st1 == ensurePosition(st, binancePositions, "BTC", "OpeningManager")
        st2 == ensurePosition(st1, binancePositions, "ETH", "OpeningManager")
        btcPos == PositionOrEmpty(st2, binancePositions, "BTC")
        ethPos == PositionOrEmpty(st2, binancePositions, "ETH")
        targetSymbol == OpeningTarget(btcPos, ethPos)
        binanceSide == IF targetSymbol = "BTC" THEN "SELL" ELSE "BUY"
    IN executeOpeningSequence(st2, cfg, targetSymbol, binanceSide, answer, t)

\* ------------------------------------------------------ the closing manager

\* placeBinanceClosingOrder: the venue method its switch calls for (symbol,
\* side).
ClosingMethod(symbol, side) ==
    IF symbol = "BTC" /\ side = "BUY" THEN "PlaceETHLong"
    ELSE IF symbol = "BTC" /\ side = "SELL" THEN "PlaceBTCShort"
    ELSE IF symbol = "ETH" /\ side = "BUY" THEN "PlaceETHLong"
    ELSE IF symbol = "ETH" /\ side = "SELL" THEN "PlaceBTCShort"
    ELSE ""

\* executeClosingSequence
executeClosingSequence(st, cfg, symbol, binanceSide, closeSize, answer, t) ==
    PlaceAndRegister(st, ClosingMethod(symbol, binanceSide), symbol, binanceSide,
                     closeSize, 0, answer, t)

\* The selection that takes the symbol with the smaller position.
ClosingTargetSmaller(btcPos, ethPos) ==
    IF Abs(btcPos.Size) <= Abs(ethPos.Size) THEN "BTC" ELSE "ETH"

\* The symbol the closing manager selects: BTC when |BTC size| >= |ETH size|.
ClosingTarget(btcPos, ethPos) ==
    IF Abs(btcPos.Size) >= Abs(ethPos.Size) THEN "BTC" ELSE "ETH"

\* The maker venue's side for the selected symbol: BUY for a short BTC
\* position and SELL otherwise, SELL for a long ETH position and BUY otherwise.
ClosingSide(targetSymbol, btcPos, ethPos) ==
    IF targetSymbol = "BTC"
    THEN (IF btcPos.Size < 0 THEN "BUY" ELSE "SELL")
    ELSE (IF ethPos.Size > 0 THEN "SELL" ELSE "BUY")

\* The closing size that is the standard order size whatever the position.
ClosingSizeWhole(currentSize, orderSize) == orderSize

\* ExecuteClosingLogic's closeSize: the smaller of the selected position's
\* absolute size and the standard order size.
ClosingSize(currentSize, orderSize) == Min(currentSize, orderSize)

\* ExecuteClosingLogic
ExecuteClosingLogic(st, cfg, answer, t) ==
    IF allPositionsZeroIn(st.ledger) THEN Ret(st, FALSE)
    ELSE LET binancePositions == GetBinancePositions
             st1 == ensurePosition(st, binancePositions, "BTC", "ClosingManager")
             st2 == ensurePosition(st1, binancePositions, "ETH", "ClosingManager")
             btcPos == PositionOrEmpty(st2, binancePositions, "BTC")
             ethPos == PositionOrEmpty(st2, binancePositions, "ETH")
             btcAbsSize == Abs(btcPos.Size)
             ethAbsSize == Abs(ethPos.Size)
             targetSymbol == ClosingTarget(btcPos, ethPos)
             binanceSide == ClosingSide(targetSymbol, btcPos, ethPos)
             currentSize == IF targetSymbol = "ETH" THEN ethAbsSize ELSE btcAbsSize
             closeSize == ClosingSize(currentSize, cfg.OrderSize)
         IN executeClosingSequence(st2, cfg, targetSymbol, binanceSide, closeSize,
                                   answer, t)

\* placeBinanceMarketOrder / placeLighterMarketOrder: the market order of an
\* emergency close, which returns nil.
MarketCall(venue, symbol, side, amount) ==
    [venue |-> venue, method |-> "MarketOrder", symbol |-> symbol,
     side |-> side, amount |-> amount, ok |-> TRUE]

\* The emergency orders for one venue when the sweep returns after its first
\* order.
EmergencyCallsFirst(l, v) ==
    LET open == SelectSeq(SymbolOrder,
                    LAMBDA s : s \in DOMAIN l[v].Positions /\ l[v].Positions[s].Size # 0)
    IN [i \in 1..Min(1, Len(open)) |->
           MarketCall(v, open[i],
                      IF l[v].Positions[open[i]].Size > 0 THEN "SELL" ELSE "BUY",
                      Abs(l[v].Positions[open[i]].Size))]

\* The emergency orders for one venue: one per symbol with a non-zero size, to
\* the side that reduces it.
EmergencyCalls(l, v) ==
    LET open == SelectSeq(SymbolOrder,
                    LAMBDA s : s \in DOMAIN l[v].Positions /\ l[v].Positions[s].Size # 0)
    IN [i \in 1..Len(open) |->
           MarketCall(v, open[i],
                      IF l[v].Positions[open[i]].Size > 0 THEN "SELL" ELSE "BUY",
                      Abs(l[v].Positions[open[i]].Size))]

\* ExecuteEmergencyClosing: Binance's positions first, then Lighter's.
ExecuteEmergencyClosing(st, cfg) ==
    Ret([st EXCEPT !.placed = @ \o EmergencyCalls(st.ledger, "binance")
                                 \o EmergencyCalls(st.ledger, "lighter")], FALSE)

\* ---------------------------------------------------- trading statistics

\* resetDailyStats
resetDailyStats(stats_, newStartTime) ==
    [stats_ EXCEPT !.DailyVolume = 0, !.DailyTrades = 0,
                   !.DailyStartTime = newStartTime, !.VolumeProgress = 0]

\* RecordTrade, at time t.
RecordTrade(stats_, volume, t) ==
    LET s1 == IF ~isSameDay(t, stats_.DailyStartTime)
              THEN resetDailyStats(stats_, t) ELSE stats_
    IN [s1 EXCEPT !.DailyVolume = @ + volume, !.DailyTrades = @ + 1,
                  !.LastTradeTime = t]

\* UpdateVolumeProgress
UpdateVolumeProgress(stats_, target) ==
    IF target > 0
    THEN [stats_ EXCEPT !.VolumeProgress = Min(100, (stats_.DailyVolume * 100) \div target)]
    ELSE stats_

\* CheckDailyTargets: <<volumeReached, tradesReached>>.
CheckDailyTargets(stats_, volumeTarget, tradesTarget) ==
    <<stats_.DailyVolume >= volumeTarget, stats_.DailyTrades >= tradesTarget>>

\* ShouldPauseTradingForDay
ShouldPauseTradingForDay(stats_, maxTrades) == stats_.DailyTrades >= maxTrades

\* --------------------------------------------------------- the control loop

\* updateStats
updateStats(st, cfg) ==
    LET s1 == [st.stats EXCEPT !.ActiveOrders = Cardinality(DOMAIN st.activeOrders)]
    IN [st EXCEPT !.stats = IF cfg.VolumeTarget > 0
                            THEN UpdateVolumeProgress(s1, cfg.VolumeTarget) ELSE s1]

\* shouldPauseForDay
shouldPauseForDay(st, cfg) ==
    IF ~cfg.ContinuousMode THEN FALSE
    ELSE LET reached == CheckDailyTargets(st.stats, cfg.VolumeTarget, cfg.MaxDailyTrades)
         IN reached[1] /\ reached[2]

\* canStartNewTrade without its check of the active orders.
canStartNewTradeBusy(st, cfg, t) ==
    IF st.lastTradeTime # ZeroTime /\ t - st.lastTradeTime < cfg.TradingInterval
    THEN FALSE
    ELSE IF cfg.MaxDailyTrades > 0
            /\ ShouldPauseTradingForDay(st.stats, cfg.MaxDailyTrades) THEN FALSE
    ELSE TRUE

\* canStartNewTrade, at time t.
canStartNewTrade(st, cfg, t) ==
    IF st.lastTradeTime # ZeroTime /\ t - st.lastTradeTime < cfg.TradingInterval
    THEN FALSE
    ELSE IF Cardinality(DOMAIN GetActiveOrdersIn(st)) > 0 THEN FALSE
    ELSE IF cfg.MaxDailyTrades > 0
            /\ ShouldPauseTradingForDay(st.stats, cfg.MaxDailyTrades) THEN FALSE
    ELSE TRUE

\* recordTrade followed by s.lastTradeTime = time.Now().
recordTrade(st, volume, t) ==
    [st EXCEPT !.stats = RecordTrade(@, volume, t), !.lastTradeTime = t]

\* executeContinuousOpening
executeContinuousOpening(st, cfg, answer, t) ==
    IF ~canStartNewTrade(st, cfg, t) THEN Ret(st, FALSE)
    ELSE LET r == ExecuteOpeningLogic(setPhase(st, "OPENING"), cfg, answer, t)
         IN IF r.err THEN r
            ELSE Ret(recordTrade(r.st, cfg.OrderSize, t), FALSE)

\* executeContinuousClosing
executeContinuousClosing(st, cfg, answer, t) ==
    LET r == ExecuteClosingLogic(setPhase(st, "CLOSING"), cfg, answer, t)
    IN IF r.err THEN r
       ELSE LET st1 == recordTrade(r.st, cfg.OrderSize, t)
            IN Ret(IF allPositionsZeroIn(st1.ledger)
                   THEN setPhase(st1, "READY_FOR_OPENING") ELSE st1, FALSE)

\* What a cycle returned: the state, the error, the risk status it evaluated
\* (NoRisk when it returned before the evaluation) and the handler it ran.
CycleRet(r, risk, handler) ==
    [st |-> r.st, err |-> r.err, risk |-> risk, handler |-> handler]

\* executeCycle's step 6: the switch on the action of the risk status
\* evaluated on st.
executeCycleDispatch(st, riskStatus, cfg, o, t) ==
    CASE riskStatus.Action = "CONTINUE_OPENING" ->
           CycleRet(executeContinuousOpening(st, cfg, o.answer, t),
                    [evaluated |-> TRUE, status |-> riskStatus],
                    "executeContinuousOpening")
      [] riskStatus.Action = "STOP_OPENING" ->
           CycleRet(Ret(setPhase([st EXCEPT !.lastStopTime = t], "LEVERAGE_LIMIT"),
                        FALSE),
                    [evaluated |-> TRUE, status |-> riskStatus], "none")
      [] riskStatus.Action = "START_CLOSING" ->
           CycleRet(executeContinuousClosing(st, cfg, o.answer, t),
                    [evaluated |-> TRUE, status |-> riskStatus],
                    "executeContinuousClosing")
      [] riskStatus.Action = "EMERGENCY_CLOSE" ->
           CycleRet(ExecuteEmergencyClosing(setPhase(st, "EMERGENCY_CLOSING"), cfg),
                    [evaluated |-> TRUE, status |-> riskStatus],
                    "ExecuteEmergencyClosing")

\* executeCycle's step 5: CheckRisk on the state the reconciliation left.
executeCycleRisk(st, cfg, o, t) ==
    executeCycleDispatch(st, CheckRisk(st, cfg, t), cfg, o, t)

\* executeCycle's steps 2 to 4, on the state updateStats left: the daily
\* limit, updatePositions (which does nothing) and the reconciliation, whose
\* error is logged and dropped.
executeCycleAfterStats(st, cfg, o, t) ==
    IF cfg.ContinuousMode /\ shouldPauseForDay(st, cfg)
    THEN CycleRet(Ret(setPhase(st, "DAILY_LIMIT_REACHED"), FALSE), NoRisk, "none")
    ELSE executeCycleRisk(IF cfg.EnableHedgeBalancing
                          THEN checkAndAdjustHedgeBalance(st, cfg, o.balance).st
                          ELSE st,
                          cfg, o, t)

\* executeCycle, at time t.  o.balance is the venues' answers to the
\* reconciler's orders, o.answer the maker venue's answer to an opening or
\* closing order.
executeCycle(st, cfg, o, t) == executeCycleAfterStats(updateStats(st, cfg), cfg, o, t)

\* executeCycle up to executeContinuousOpening's setPhase("OPENING"): whether
\* the cycle got there (no daily pause, the risk evaluation CONTINUE_OPENING,
\* canStartNewTrade true) and the state it has there.
executeCycleToOpening(st, cfg, o, t) ==
    LET s1 == updateStats(st, cfg)
        s2 == IF cfg.EnableHedgeBalancing
              THEN checkAndAdjustHedgeBalance(s1, cfg, o.balance).st ELSE s1
    IN IF cfg.ContinuousMode /\ shouldPauseForDay(s1, cfg)
       THEN [reached |-> FALSE, st |-> s1]
       ELSE [reached |-> /\ CheckRisk(s2, cfg, t).Action = "CONTINUE_OPENING"
                         /\ canStartNewTrade(s2, cfg, t),
             st |-> setPhase(s2, "OPENING")]

\* executeContinuousOpening from ExecuteOpeningLogic on, at time t.
executeContinuousOpeningPlace(st, cfg, answer, t) ==
    LET r == ExecuteOpeningLogic(st, cfg, answer, t)
    IN IF r.err THEN r
       ELSE Ret(recordTrade(r.st, cfg.OrderSize, t), FALSE)

\* monitoringLoop's select, ctx.Done case, with a break in place of the return:
\* the loop goes back to the select.
monitoringLoopAfterDoneBreak == "running"

\* monitoringLoop's select, ctx.Done case: the loop returns.
monitoringLoopAfterDone == "stopped"

\* No cycle in the stop band yet.
NoStopBand == [since |-> ZeroTime, escalated |-> FALSE]

\* ------------------------------------------------------- the hedge executor

\* NewDefaultFastExecutionConfig: EnablePriceProtection, and
\* MaxSlippagePercent 0.1 as parts in a thousand.
EnablePriceProtection == TRUE
MaxSlippagePerMille == 1

\* determineHedgeSide
determineHedgeSide(symbol, originalSide) ==
    IF symbol = "BTC" /\ originalSide = "SELL" THEN "BUY"
    ELSE IF symbol = "ETH" /\ originalSide = "BUY" THEN "SELL"
    ELSE originalSide

\* executeLighterHedge (FastExecutionManager): the taker venue's method for
\* (symbol, hedgeSide), "" when the pair is not supported.
LighterHedgeMethod(symbol, hedgeSide) ==
    IF symbol = "BTC" /\ hedgeSide = "BUY" THEN "PlaceBTCLong"
    ELSE IF symbol = "ETH" /\ hedgeSide = "SELL" THEN "PlaceETHShort"
    ELSE ""

\* The attempt of executeHedgeWithRetry that succeeds when the venue refuses
\* the first o.fails orders: none (MaxRetryAttempts + 1) for an unsupported
\* pair, whose every attempt fails without a venue call.
FirstOk(method, o) ==
    IF method = "" THEN MaxRetryAttempts + 1 ELSE Min(o.fails + 1, MaxRetryAttempts + 1)

\* Whether the wait after a failed attempt ends by the cancellation: o.cancelAt
\* is the attempt after which the context is cancelled, 0 when it never is.
\* There is no wait after a successful attempt nor after the last one.
CancelledInWait(method, o) ==
    o.cancelAt > 0 /\ o.cancelAt < FirstOk(method, o) /\ o.cancelAt < MaxRetryAttempts

\* The number of attempts executeHedgeWithRetry makes.
Attempts(method, o) ==
    IF CancelledInWait(method, o) THEN o.cancelAt
    ELSE Min(FirstOk(method, o), MaxRetryAttempts)

\* The retry loop with one attempt more than MaxRetryAttempts.
executeHedgeWithRetryOnceMore(st, method, size, o) ==
    Ret([st EXCEPT !.placed = @ \o
                       [i \in 1..(IF method = "" THEN 0 ELSE Min(o.fails + 1, MaxRetryAttempts + 1))
                           |-> VenueCall("lighter", method, size, i > o.fails)],
                   !.retry = [attempts |-> Min(o.fails + 1, MaxRetryAttempts + 1),
                              result |-> IF method # "" /\ o.fails <= MaxRetryAttempts
                                         THEN "ok" ELSE "exhausted"]],
        ~(method # "" /\ o.fails <= MaxRetryAttempts))

\* The retry loop that goes on to the next attempt when the context is
\* cancelled during a wait.
executeHedgeWithRetryDeaf(st, method, size, o) ==
    Ret([st EXCEPT !.placed = @ \o
                       [i \in 1..(IF method = "" THEN 0
                                  ELSE Min(FirstOk(method, o), MaxRetryAttempts))
                           |-> VenueCall("lighter", method, size, i > o.fails)],
                   !.retry = [attempts |-> Min(FirstOk(method, o), MaxRetryAttempts),
                              result |-> IF FirstOk(method, o) <= MaxRetryAttempts
                                         THEN "ok" ELSE "exhausted"]],
        FirstOk(method, o) > MaxRetryAttempts)

\* executeHedgeWithRetry: up to MaxRetryAttempts attempts, each one call of
\* the taker venue's method (none for an unsupported pair); the first
\* successful attempt returns; after a failed attempt that is not the last the
\* loop waits, and returns the context's error when the context is cancelled
\* during the wait; when every attempt failed it returns an error.
executeHedgeWithRetry(st, method, size, o) ==
    Ret([st EXCEPT !.placed = @ \o
                       [i \in 1..(IF method = "" THEN 0 ELSE Attempts(method, o))
                           |-> VenueCall("lighter", method, size, i > o.fails)],
                   !.retry = [attempts |-> Attempts(method, o),
                              result |-> IF CancelledInWait(method, o) THEN "cancelled"
                                         ELSE IF FirstOk(method, o) <= MaxRetryAttempts
                                         THEN "ok" ELSE "exhausted"]],
        CancelledInWait(method, o) \/ FirstOk(method, o) > MaxRetryAttempts)

\* One invocation of a hedge executor, for size: whether it succeeded, the
\* attempts it made and how they ended.
HedgeInvocation(executor, symbol, side, size, ok, retry) ==
    [executor |-> executor, symbol |-> symbol, side |-> side, size |-> size,
     ok |-> ok, attempts |-> retry.attempts, result |-> retry.result]

\* The invocation r returned from is added to the record of invocations.
HedgeInvoked(r, executor, symbol, side, size) ==
    Ret([r.st EXCEPT !.hedges =
            Append(@, HedgeInvocation(executor, symbol, side, size, ~r.err,
                                      r.st.retry))],
        r.err)

\* validatePrice: whether it returns an error.  It fetches no reference price
\* and accepts every price.
validatePrice(symbol, price) == FALSE

\* ExecuteFastHedge, with the default configuration's price protection; the
\* execution context's times and the execution statistics are reporting values.
ExecuteFastHedge(st, symbol, originalSide, size, originalPrice, o) ==
    IF EnablePriceProtection /\ validatePrice(symbol, originalPrice)
    THEN HedgeInvoked(Ret(st, TRUE), "ExecuteFastHedge", symbol,
                      determineHedgeSide(symbol, originalSide), size)
    ELSE HedgeInvoked(
             executeHedgeWithRetry(st,
                 LighterHedgeMethod(symbol, determineHedgeSide(symbol, originalSide)),
                 size, o),
             "ExecuteFastHedge", symbol, determineHedgeSide(symbol, originalSide), size)

\* The times of ExecuteFastHedge's ExecutionContext: StartTime read when the
\* call begins, DetectionTime after the price validation, CompletionTime and
\* TotalDelay once the hedge was placed.
ExecutionTimes(startTime, detectionTime, completionTime, success) ==
    [StartTime |-> startTime, DetectionTime |-> detectionTime,
     CompletionTime |-> IF success THEN completionTime ELSE ZeroTime,
     TotalDelay |-> IF success THEN completionTime - startTime ELSE 0,
     Success |-> success]

\* executeHedgeTrade: executeLighterHedge / executeBinanceHedge (OrderMonitor)
\* place nothing and return nil.
executeHedgeTrade(st, order) ==
    HedgeInvoked(Ret(st, FALSE), "executeHedgeTrade", order.Symbol,
                 IF order.Exchange = "binance"
                 THEN (IF order.Symbol = "BTC" /\ order.Side = "SELL" THEN "BUY"
                       ELSE IF order.Symbol = "ETH" /\ order.Side = "BUY" THEN "SELL"
                       ELSE "")
                 ELSE (IF order.Symbol = "BTC" /\ order.Side = "BUY" THEN "SELL"
                       ELSE IF order.Symbol = "ETH" /\ order.Side = "SELL" THEN "BUY"
                       ELSE ""),
                 order.Size)

\* -------------------------------------------------------------- the tracker

\* getBinanceOrderStatus / getLighterOrderStatus as built: PENDING, nothing
\* filled.
getOrderStatus(order) == <<"PENDING", 0>>

\* updatePositionsAfterTrade: returns nil, the ledger as it was.
updatePositionsAfterTrade(r) == r

\* The fill handler that logs the fast executor's error and returns nil.
handleOrderFilledQuiet(st, cfg, order, o) ==
    Ret(ExecuteFastHedge(st, order.Symbol, order.Side, order.Size, order.Price, o).st,
        FALSE)

\* handleOrderFilled, for the order object read through the tick's snapshot.
handleOrderFilled(st, cfg, order, o) ==
    IF cfg.EnableFastExecution
    THEN updatePositionsAfterTrade(
             ExecuteFastHedge(st, order.Symbol, order.Side, order.Size, order.Price, o))
    ELSE updatePositionsAfterTrade(executeHedgeTrade(st, order))

\* handleOrderPartialFilled: hedges the order's FilledSize, the total filled
\* so far.
handleOrderPartialFilled(st, order) ==
    updatePositionsAfterTrade(
        executeHedgeTrade(st, [order EXCEPT !.Size = order.FilledSize]))

\* A cancellation handled as a partial fill is: the cancelled order hedged.
handleOrderCancelledHedged(st, order) == handleOrderPartialFilled(st, order)

\* handleOrderCancelled
handleOrderCancelled(st, order) == Ret(RemoveOrderIn(st, order.ID), FALSE)

\* handleOrderStatusChange, on the state UpdateOrderStatus left.
handleOrderStatusChange(st, cfg, addr, newStatus, o) ==
    CASE newStatus = "FILLED" -> handleOrderFilled(st, cfg, st.heap[addr], o)
      [] newStatus = "PARTIAL" -> handleOrderPartialFilled(st, st.heap[addr])
      [] newStatus = "CANCELLED" -> handleOrderCancelled(st, st.heap[addr])
      [] OTHER -> Ret(st, FALSE)

\* The answer of a status query that returned an error.
QueryError == <<"QUERY_ERROR", 0>>

\* Whether report, the venue's answer <<status, filled size>>, differs from
\* what the order object holds.
Changed(order, report) ==
    report # QueryError /\ (report[1] # order.Status \/ report[2] # order.FilledSize)

\* checkOrderStatus for the order object at addr, to which the venue reports
\* report; o is the taker venue's behaviour towards a hedge.
checkOrderStatus(st, cfg, addr, report, o, t) ==
    IF report = QueryError THEN Ret(st, TRUE)
    ELSE IF Changed(st.heap[addr], report)
    THEN handleOrderStatusChange(
             UpdateOrderStatusIn(st, st.heap[addr].ID, report[1], report[2], t),
             cfg, addr, report[1], o)
    ELSE Ret(st, FALSE)

\* The tick has gone through the order id, for which the venue reported
\* report and checkOrderStatus returned r; hedgesBefore is the number of hedge
\* invocations made before this order.
Checked(r, id, report, hedgesBefore) ==
    [r.st EXCEPT !.checked =
        Append(@, [id |-> id, err |-> r.err, report |-> report,
                   exhausted |-> (/\ Len(r.st.hedges) > hedgesBefore
                                  /\ r.st.hedges[Len(r.st.hedges)].result = "exhausted")])]

RECURSIVE checkEachUntilError(_, _, _, _, _, _)
\* The loop over the snapshot that returns at the first order whose check
\* returned an error.
checkEachUntilError(st, cfg, snap, ids, answers, t) ==
    IF ids = <<>> \/ (\E i \in 1..Len(st.checked) : st.checked[i].err) THEN st
    ELSE checkEachUntilError(
             Checked(checkOrderStatus(st, cfg, snap[Head(ids)],
                                      answers[Head(ids)].report, answers[Head(ids)].o, t),
                     Head(ids), answers[Head(ids)].report, Len(st.hedges)),
             cfg, snap, Tail(ids), answers, t)

RECURSIVE checkEach(_, _, _, _, _, _)
\* checkActiveOrders' loop over the snapshot snap, in the order ids: each
\* order's checkOrderStatus, whose error is logged.
checkEach(st, cfg, snap, ids, answers, t) ==
    IF ids = <<>> THEN st
    ELSE checkEach(
             Checked(checkOrderStatus(st, cfg, snap[Head(ids)],
                                      answers[Head(ids)].report, answers[Head(ids)].o, t),
                     Head(ids), answers[Head(ids)].report, Len(st.hedges)),
             cfg, snap, Tail(ids), answers, t)

\* checkActiveOrders: takes the snapshot, checks every order of it, returns nil.
checkActiveOrders(st, cfg, ids, answers, t) ==
    Ret(checkEach(st, cfg, GetActiveOrdersIn(st), ids, answers, t), FALSE)

\* monitorLoop after a tick: an error of checkActiveOrders is logged and the
\* loop waits for the next tick.
monitorLoopAfterTick(err) == "running"

\* ------------------------------------------------------------ construction

\* The configuration of pkg/config's defaults, in the model's units: leverage
\* thresholds 3.0 and 5.0, order size 1000, tolerance 5% and minimum
\* adjustment 50; the stop duration and trading interval in ticks, the daily
\* targets scaled to two trades of the order size.
DefaultConfig ==
    [OrderSize |-> 1000, MaxLeverage |-> 3000, EmergencyLeverage |-> 5000,
     StopDuration |-> 1, TradingInterval |-> 1,
     ContinuousMode |-> TRUE, VolumeTarget |-> 2000, MaxDailyTrades |-> 2,
     EnableHedgeBalancing |-> TRUE, BalanceTolerance |-> 5, MinBalanceAdjust |-> 50,
     EnableFastExecution |-> TRUE]


\* NewTradingStatsManager, at time t.  The totals since the start, the average
\* trade size and the trade frequency are reporting values no decision reads.
NewTradingStats(t) ==
    [DailyVolume |-> 0, DailyTrades |-> 0, DailyStartTime |-> t,
     LastTradeTime |-> ZeroTime, CurrentPhase |-> "INITIALIZING",
     ActiveOrders |-> 0, VolumeProgress |-> 0]

\* The positions an update of the ledger may carry: flat, or long or short
\* 400 or 600 USDT at a price of 100.
PositionInputs ==
    {Position(0, 0), Position(4, 400), Position(-4, -400), Position(6, 600),
     Position(-6, -600)}

\* ------------------------------------------------------- start and stop

\* NewDynamicHedgeStrategy / NewOrderMonitor: not running, each stop channel
\* made once and open (closed no time).
NewLife ==
    [isRunning |-> FALSE, monitorRunning |-> FALSE,
     stopChan |-> 0, monitorStopChan |-> 0, panicked |-> FALSE]

\* What Start or Stop left: the lifecycle fields, whether the call returned an
\* error, and whether it started the two loops' goroutines.
LifeRet(l, err, started) == [life |-> l, err |-> err, started |-> started]

\* close(ch) on a channel that was closed n times: closing a closed channel
\* panics.
CloseChan(l, ch) == [l EXCEPT ![ch] = @ + 1, !.panicked = (l[ch] > 0)]

\* OrderMonitor.Start
MonitorStarted(l) ==
    IF l.monitorRunning THEN LifeRet(l, TRUE, FALSE)
    ELSE LifeRet([l EXCEPT !.monitorRunning = TRUE], FALSE, TRUE)

\* OrderMonitor.Stop
MonitorStopped(l) ==
    IF ~l.monitorRunning THEN l
    ELSE LET l1 == CloseChan(l, "monitorStopChan")
         IN IF l1.panicked THEN l1 ELSE [l1 EXCEPT !.monitorRunning = FALSE]

\* DynamicHedgeStrategy.Start: isRunning is set before the tracker is started.
Started(l) ==
    IF l.isRunning THEN LifeRet(l, TRUE, FALSE)
    ELSE LET m == MonitorStarted([l EXCEPT !.isRunning = TRUE])
         IN IF m.err THEN LifeRet(m.life, TRUE, FALSE)
            ELSE LifeRet(m.life, FALSE, TRUE)

\* DynamicHedgeStrategy.Stop: the tracker's Stop, then close(s.stopChan).
Stopped(l) ==
    IF ~l.isRunning THEN l
    ELSE LET l1 == MonitorStopped(l)
         IN IF l1.panicked THEN l1
            ELSE LET l2 == CloseChan(l1, "stopChan")
                 IN IF l2.panicked THEN l2 ELSE [l2 EXCEPT !.isRunning = FALSE]

\* NewDynamicHedgeStrategy followed by Start(cfg): the state after construction,
\* with the ledger holding l.
InitWith(cfg, l) ==
    /\ ledger = l
    /\ pmReaders = 0
    /\ held = NoPositions
    /\ heldSeen = NoPositions.value
    /\ lastRisk = NoRisk
    /\ stopBand = NoStopBand
    /\ hedgeLog = EmptyMap
    /\ hb = [tolerancePercent |-> DefaultTolerancePercent,
             minAdjustAmount |-> DefaultMinAdjustAmount]
    /\ heap = EmptyMap
    /\ activeOrders = EmptyMap
    /\ snapshot = EmptyMap
    /\ snapshotSeen = EmptyMap
    /\ config = cfg
    /\ currentPhase = "INITIALIZED"
    /\ lastStopTime = ZeroTime
    /\ lastTradeTime = ZeroTime
    /\ stats = NewTradingStats(0)
    /\ monitor = "running"
    /\ loop = "running"
    /\ ctx = "live"
    /\ life = Started(NewLife).life
    /\ now = 0
    /\ placed = <<>>
    /\ lastOp = [op |-> "Start", err |-> FALSE, writes |-> <<>>]

\* ------------------------------------------------------- ledger operations

\* UpdateLighterPosition / UpdateBinancePosition: replaces the symbol's entry
\* while holding pm.mu exclusively, so not while a reader is inside.
UpdatePosition(v, symbol, position) ==
    /\ pmReaders = 0
    /\ ledger' = UpdatePositionIn(ledger, v, symbol, position)
    /\ placed' = <<>>
    /\ lastOp' = [op |-> "UpdatePosition", err |-> FALSE,
                  writes |-> <<MapWrite(v, symbol, "UpdatePosition", TRUE)>>]
    /\ UNCHANGED <<pmReaders, held, heldSeen, lastRisk, stopBand, hedgeLog, now>>
    /\ UNCHANGED orderVars
    /\ UNCHANGED ctlVars

UpdateLighterPosition(symbol, position) == UpdatePosition("lighter", symbol, position)
UpdateBinancePosition(symbol, position) == UpdatePosition("binance", symbol, position)

\* CalculateTotalLeverage: recomputes both venues' leverage under pm.mu.Lock().
CalculateTotalLeverage ==
    /\ pmReaders = 0
    /\ ledger' = CalculateTotalLeverageIn(ledger)
    /\ placed' = <<>>
    /\ lastOp' = [op |-> "CalculateTotalLeverage", err |-> FALSE, writes |-> <<>>]
    /\ UNCHANGED <<pmReaders, held, heldSeen, lastRisk, stopBand, hedgeLog, now>>
    /\ UNCHANGED orderVars
    /\ UNCHANGED ctlVars

\* ForceBalanceAdjustment: one reconciliation pass on request.
ForceBalanceAdjustment ==
    \E oracle \in [Symbols -> BOOLEAN] :
        LET r == checkAndAdjustHedgeBalance(St, config, oracle)
        IN /\ Commit(r.st)
           /\ lastOp' = [op |-> "ForceBalanceAdjustment", err |-> r.err,
                         status |-> CheckHedgeBalanceIn(ConfigureBalancer(hb, config),
                                                        ledger)]
           /\ UNCHANGED <<pmReaders, held, heldSeen, lastRisk, stopBand, hedgeLog, now, config, monitor, loop, ctx, life>>
           /\ UNCHANGED <<snapshot, snapshotSeen>>

\* ------------------------------------------ specification: the reconciler

InitReconcile == InitWith(DefaultConfig, NewPositionManager)

NextReconcile ==
    \/ \E s \in Symbols, p \in PositionInputs : UpdateLighterPosition(s, p)
    \/ \E s \in Symbols, p \in PositionInputs : UpdateBinancePosition(s, p)
    \/ ForceBalanceAdjustment

SpecReconcile == InitReconcile /\ [][NextReconcile]_vars

\* The imbalance of a symbol recomputed from the ledger as it is now.
ImbalanceNow(symbol) ==
    checkSymbolBalance(hb, symbol, Deref(GetLighterPositions), Deref(GetBinancePositions))

\* C1: after a reconciliation pass that returned no error, every symbol's
\* recomputed imbalance is within the tolerance or within the minimum
\* adjustment amount.
C1_ReconcilePostcondition ==
    (lastOp.op = "ForceBalanceAdjustment" /\ ~lastOp.err) =>
        \A s \in Symbols :
            LET i == ImbalanceNow(s)
            IN \/ ~PercentExceeds(Abs(i.ActualImbalance),
                                  Abs(i.LighterPosition) + Abs(i.BinancePosition),
                                  hb.tolerancePercent)
               \/ Abs(i.ActualImbalance) <= hb.minAdjustAmount

\* ---------------------------------------------- order registry operations

\* The order ids the maker venue hands out.
OrderIds == {1, 2}
\* The (status, cumulative filled size) pairs a venue may report for an order
\* of size 1000.
StatusReports ==
    {<<"PENDING", 0>>, <<"PARTIAL", 400>>, <<"PARTIAL", 600>>,
     <<"FILLED", 1000>>, <<"CANCELLED", 0>>, <<"CANCELLED", 400>>}

\* AddOrder, as called after a maker order was placed: a new PENDING order.
AddOrder(id, symbol, side) ==
    /\ Cardinality(DOMAIN heap) < MaxOrders
    /\ LET st1 == Alloc(St, ActiveOrder(id, "binance", symbol, side,
                                        config.OrderSize, now))
           st2 == AddOrderIn(st1, NewAddr(St))
       IN /\ Commit(st2)
          /\ lastOp' = [op |-> "AddOrder", err |-> FALSE, id |-> id]
    /\ UNCHANGED ledgerVars
    /\ UNCHANGED <<snapshot, snapshotSeen, config, monitor, loop, ctx, life, now>>

\* UpdateOrderStatus
UpdateOrderStatus(id, status, filledSize) ==
    /\ Commit(UpdateOrderStatusIn(St, id, status, filledSize, now))
    /\ lastOp' = [op |-> "UpdateOrderStatus", err |-> FALSE, id |-> id]
    /\ UNCHANGED ledgerVars
    /\ UNCHANGED <<snapshot, snapshotSeen, config, monitor, loop, ctx, life, now>>

\* RemoveOrder
RemoveOrder(id) ==
    /\ Commit(RemoveOrderIn(St, id))
    /\ lastOp' = [op |-> "RemoveOrder", err |-> FALSE, id |-> id]
    /\ UNCHANGED ledgerVars
    /\ UNCHANGED <<snapshot, snapshotSeen, config, monitor, loop, ctx, life, now>>

\* GetActiveOrders by an observer, who keeps the returned map and reads the
\* orders through it at once.
GetActiveOrders ==
    /\ snapshot' = GetActiveOrdersIn(St)
    /\ snapshotSeen' = ReadThrough(heap, GetActiveOrdersIn(St))
    /\ placed' = <<>>
    /\ lastOp' = [op |-> "GetActiveOrders", err |-> FALSE]
    /\ UNCHANGED ledgerVars
    /\ UNCHANGED ctlVars
    /\ UNCHANGED <<heap, activeOrders, now>>

\* --------------------------------------- specification: the order registry

InitOrders == InitWith(DefaultConfig, NewPositionManager)

NextOrders ==
    \/ \E id \in OrderIds : AddOrder(id, "BTC", "SELL")
    \/ \E id \in OrderIds, r \in StatusReports : UpdateOrderStatus(id, r[1], r[2])
    \/ \E id \in OrderIds : RemoveOrder(id)
    \/ GetActiveOrders

SpecOrders == InitOrders /\ [][NextOrders]_vars

\* C6: no order of the active set has the status FILLED or CANCELLED: what
\* GetActiveOrders returns never holds an order that reached either status.
C6_NoTerminalOrderActive ==
    \A id \in DOMAIN GetActiveOrdersIn(St) :
        heap[GetActiveOrdersIn(St)[id]].Status \notin {"FILLED", "CANCELLED"}

\* C6 witness: an active order was just updated to FILLED and is gone from
\* the active set.
C6_Witness ==
    /\ lastOp.op = "UpdateOrderStatus"
    /\ \E a \in DOMAIN heap :
           /\ heap[a].ID = lastOp.id
           /\ heap[a].Status = "FILLED"
    /\ lastOp.id \notin DOMAIN activeOrders

\* C7: what an observer reads through a snapshot stays what it read when the
\* snapshot was taken: the same orders, with the same field values.
C7_SnapshotIsolated ==
    /\ DOMAIN snapshot = DOMAIN snapshotSeen
    /\ \A id \in DOMAIN snapshot :
           LET o == heap[snapshot[id]]
           IN /\ o.Status = snapshotSeen[id].Status
              /\ o.FilledSize = snapshotSeen[id].FilledSize
              /\ o.UpdatedAt = snapshotSeen[id].UpdatedAt

\* ------------------------------------------------ specification: the ledger

\* What the maker venue answers to an order: accepted with a new order id, or
\* refused.
VenueAnswers ==
    {[ok |-> TRUE, id |-> Cardinality(DOMAIN heap) + 1], [ok |-> FALSE, id |-> 0]}

\* A caller gets a venue's positions and reads them at once.
HolderGetPositions(v) ==
    /\ held' = GetPositions(v)
    /\ heldSeen' = Deref(GetPositions(v))
    /\ placed' = <<>>
    /\ lastOp' = [op |-> "GetPositions", err |-> FALSE, writes |-> <<>>]
    /\ UNCHANGED <<ledger, pmReaders, lastRisk, stopBand, hedgeLog, now>>
    /\ UNCHANGED orderVars
    /\ UNCHANGED ctlVars

\* GetPositionSummary takes pm.mu.RLock() ...
BeginPositionSummary ==
    /\ pmReaders < MaxReaders
    /\ pmReaders' = pmReaders + 1
    /\ placed' = <<>>
    /\ lastOp' = [op |-> "BeginPositionSummary", err |-> FALSE, writes |-> <<>>]
    /\ UNCHANGED <<ledger, held, heldSeen, lastRisk, stopBand, hedgeLog, now>>
    /\ UNCHANGED orderVars
    /\ UNCHANGED ctlVars

\* ... and releases it when the summary is built.
EndPositionSummary ==
    /\ pmReaders > 0
    /\ pmReaders' = pmReaders - 1
    /\ placed' = <<>>
    /\ lastOp' = [op |-> "EndPositionSummary", err |-> FALSE, writes |-> <<>>]
    /\ UNCHANGED <<ledger, held, heldSeen, lastRisk, stopBand, hedgeLog, now>>
    /\ UNCHANGED orderVars
    /\ UNCHANGED ctlVars

\* The Size of the symbol's position at venue v in ledger l, 0 when absent.
SizeIn(l, v, symbol) ==
    IF symbol \in DOMAIN l[v].Positions THEN l[v].Positions[symbol].Size ELSE 0

\* One opening step of the control loop: ExecuteOpeningLogic; before is the
\* maker venue's position sizes it found.
OpeningStep ==
    /\ Cardinality(DOMAIN heap) < MaxOrders
    /\ \E answer \in VenueAnswers :
        LET r == ExecuteOpeningLogic(St, config, answer, now)
        IN /\ Commit(r.st)
           /\ lastOp' = [op |-> "ExecuteOpeningLogic", err |-> r.err,
                         writes |-> r.st.writes,
                         before |-> [s \in Symbols |-> SizeIn(ledger, "binance", s)],
                         registered |-> DOMAIN r.st.activeOrders \ DOMAIN activeOrders]
    /\ UNCHANGED <<pmReaders, held, heldSeen, lastRisk, stopBand, hedgeLog, now, config, monitor, loop, ctx, life>>
    /\ UNCHANGED <<snapshot, snapshotSeen>>

InitLedger == InitWith(DefaultConfig, NewPositionManager)

\* The positions an update carries in this specification.
LedgerInputs == {Position(0, 0), Position(6, 600)}

NextLedger ==
    \/ \E p \in LedgerInputs : UpdateLighterPosition("BTC", p)
    \/ \E s \in Symbols, p \in LedgerInputs : UpdateBinancePosition(s, p)
    \/ CalculateTotalLeverage
    \/ \E v \in Venues : HolderGetPositions(v)

SpecLedger == InitLedger /\ [][NextLedger]_vars

\* --------------------------------------- specification: the opening manager

\* The maker venue's positions the opening manager finds: flat, long 6 (600
\* USDT), short 4 (400 USDT).
OpeningInputs == {Position(0, 0), Position(6, 600), Position(-4, -400)}

InitOpening == InitWith(DefaultConfig, NewPositionManager)

NextOpening ==
    \/ \E s \in Symbols, p \in OpeningInputs : UpdateBinancePosition(s, p)
    \/ BeginPositionSummary
    \/ EndPositionSummary
    \/ OpeningStep

SpecOpening == InitOpening /\ [][NextOpening]_vars

\* C8: what the holder of a value returned by GetLighterPositions /
\* GetBinancePositions reads through it stays what it read when it got it.
C8_ReturnedPositionsImmutable == Deref(held) = heldSeen

\* C9: every write of a venue's symbol-to-position map is made holding the
\* ledger's exclusive lock, with no reader inside a read section.
C9_MapWritesLocked ==
    \A i \in 1..Len(lastOp.writes) :
        lastOp.writes[i].locked /\ lastOp.writes[i].readers = 0

\* ------------------------------------------- specification: risk evaluation

\* The highest of the two venues' leverages in the ledger.
LedgerMaxLeverage ==
    IF ledger["lighter"].Leverage > ledger["binance"].Leverage
    THEN ledger["lighter"].Leverage ELSE ledger["binance"].Leverage

\* The clock advances.
Tick ==
    /\ now < MaxTime
    /\ now' = now + 1
    /\ placed' = <<>>
    /\ lastOp' = [op |-> "Tick", err |-> FALSE]
    /\ UNCHANGED ledgerVars
    /\ UNCHANGED orderVars
    /\ UNCHANGED ctlVars

\* One evaluation of CheckRisk on the ledger, at the current time.
CheckRiskStep ==
    LET status == CheckRisk(St, config, now)
    IN /\ lastRisk' = [evaluated |-> TRUE, ledger |-> ledger, status |-> status]
       /\ placed' = <<>>
       /\ lastOp' = [op |-> "CheckRisk", err |-> FALSE, status |-> status,
                     prev |-> lastRisk]
       /\ UNCHANGED <<ledger, pmReaders, held, heldSeen, stopBand, hedgeLog, now>>
       /\ UNCHANGED orderVars
       /\ UNCHANGED ctlVars

\* The position values that give a venue the leverages 0, 2.9, 3.0, 3.5, 5.0
\* and 5.1 at the equity CalculateTotalLeverage divides by.
RiskInputs ==
    {Position(0, 0), Position(29, 2900), Position(30, 3000), Position(35, 3500),
     Position(50, 5000), Position(51, 5100)}

\* Thresholds: the defaults 3.0 and 5.0, both 3.0, and a maximum above the
\* emergency threshold.
RiskConfigs ==
    {[DefaultConfig EXCEPT !.MaxLeverage = t[1], !.EmergencyLeverage = t[2]] :
        t \in {<<3000, 5000>>, <<3000, 3000>>, <<5000, 3000>>}}

\* The ledger after UpdateLighterPosition("BTC", lp), UpdateBinancePosition(
\* "BTC", bp) and CalculateTotalLeverage.
LedgerWith(lp, bp) ==
    CalculateTotalLeverageIn(
        UpdatePositionIn(UpdatePositionIn(NewPositionManager, "lighter", "BTC", lp),
                         "binance", "BTC", bp))

InitRisk ==
    \E cfg \in RiskConfigs, lp \in RiskInputs, bp \in RiskInputs :
        InitWith(cfg, LedgerWith(lp, bp))

NextRisk ==
    \/ CheckRiskStep
    \/ Tick
    \/ \E p \in LedgerInputs : UpdateBinancePosition("ETH", p)

SpecRisk == InitRisk /\ [][NextRisk]_vars

\* C3: with the maximum threshold at most the emergency threshold, CheckRisk
\* returns EMERGENCY_CLOSE iff the highest leverage is at or above the
\* emergency threshold, otherwise STOP_OPENING or START_CLOSING iff it is at
\* or above the maximum, otherwise CONTINUE_OPENING; with 3.0 and 5.0, 2.9
\* gives CONTINUE_OPENING, 3.0 and 3.5 STOP_OPENING, 5.0 and 5.1
\* EMERGENCY_CLOSE.
C3_RiskClassification ==
    (lastOp.op = "CheckRisk" /\ config.MaxLeverage <= config.EmergencyLeverage) =>
        LET m == LedgerMaxLeverage
            a == lastOp.status.Action
        IN /\ a = "EMERGENCY_CLOSE" <=> m >= config.EmergencyLeverage
           /\ a \in {"STOP_OPENING", "START_CLOSING"} <=>
                 (m < config.EmergencyLeverage /\ m >= config.MaxLeverage)
           /\ a = "CONTINUE_OPENING" <=>
                 (m < config.EmergencyLeverage /\ m < config.MaxLeverage)
           /\ (config.MaxLeverage = 3000 /\ config.EmergencyLeverage = 5000) =>
                 /\ m = 2900 => a = "CONTINUE_OPENING"
                 /\ m \in {3000, 3500} => a = "STOP_OPENING"
                 /\ m \in {5000, 5100} => a = "EMERGENCY_CLOSE"

\* An evaluation at exactly the maximum threshold 3.0, below the emergency
\* threshold 5.0, returned STOP_OPENING.
C3_Witness ==
    /\ lastOp.op = "CheckRisk"
    /\ config.MaxLeverage = 3000 /\ config.EmergencyLeverage = 5000
    /\ LedgerMaxLeverage = 3000
    /\ lastOp.status.Action = "STOP_OPENING"

\* C5: two evaluations of CheckRisk on the same ledger contents and the same
\* configuration return the same RiskStatus in every field, the timestamp
\* included.
C5_RiskStatusIdentical ==
    (lastOp.op = "CheckRisk" /\ lastOp.prev.evaluated /\ lastOp.prev.ledger = ledger) =>
        lastOp.status = lastOp.prev.status

\* C5, amended: two evaluations on the same ledger contents and configuration
\* return the same action, per-venue leverages, maximum leverage and reason;
\* the timestamp is the time of each evaluation.
C5_RiskStatusIdenticalButTimestamp ==
    (lastOp.op = "CheckRisk" /\ lastOp.prev.evaluated /\ lastOp.prev.ledger = ledger) =>
        /\ [lastOp.status EXCEPT !.Timestamp = 0] =
               [lastOp.prev.status EXCEPT !.Timestamp = 0]
        /\ lastOp.status.Timestamp = now

\* A second evaluation on the same ledger in the stop band, later than the
\* first.
C5_Witness ==
    /\ lastOp.op = "CheckRisk"
    /\ lastOp.prev.evaluated
    /\ lastOp.prev.ledger = ledger
    /\ lastOp.prev.status.Timestamp < now
    /\ lastOp.status.Action = "STOP_OPENING"

\* ------------------------------------------ specification: the control loop

\* The state after a cycle that returned r, which found the highest leverage
\* preMax when it began.  preLeverage is each venue's sum of |Value| over the
\* equity for the positions the ledger held when the cycle began, which are
\* those it holds at the risk evaluation: updatePositions and the reconciler
\* change no position.  seq is the parity of the count of consecutive
\* cycles, so that every cycle is a step even when it leaves the program's
\* state as it was.
CycleDone(r, preMax, inBand) ==
    /\ r.st.heap = heap \/ Cardinality(DOMAIN heap) < MaxOrders
    /\ Commit(r.st)
    /\ stopBand' = IF inBand
                   THEN [since |-> IF stopBand.since = ZeroTime THEN now
                                   ELSE stopBand.since,
                         escalated |-> \/ stopBand.escalated
                                       \/ /\ r.risk.evaluated
                                          /\ r.risk.status.Action = "START_CLOSING"
                                          /\ r.handler = "executeContinuousClosing"]
                   ELSE NoStopBand
    /\ lastOp' = [op |-> "executeCycle", err |-> r.err,
                  prePhase |-> currentPhase, preMax |-> preMax,
                  preStats |-> stats, at |-> now,
                  preLeverage |-> [v \in Venues |-> TotalLeverage(ledger[v])],
                  seq |-> IF lastOp.op = "executeCycle" THEN 1 - lastOp.seq ELSE 0,
                  risk |-> r.risk, handler |-> r.handler,
                  writes |-> r.st.writes]
    /\ UNCHANGED <<pmReaders, held, heldSeen, lastRisk, hedgeLog, now, config, monitor, loop, ctx, life>>
    /\ UNCHANGED <<snapshot, snapshotSeen>>

\* One cycle of the monitoring loop: executeCycle at the current time.  A
\* cycle that registers an order runs only while fewer than MaxOrders order
\* objects were made.  accepts is the venues' answer to the reconciler's
\* orders, answer the maker venue's to an opening or closing order.
Cycle ==
    \E accepts \in BOOLEAN, answer \in VenueAnswers :
        CycleDone(executeCycle(St, config, [balance |-> [s \in Symbols |-> accepts],
                                            answer |-> answer], now),
                  LedgerMaxLeverage,
                  /\ LedgerMaxLeverage >= config.MaxLeverage
                  /\ LedgerMaxLeverage < config.EmergencyLeverage)

\* The taker venue's BTC position an update carries in this specification:
\* worth 3.0 or 5.0 times the equity.
CycleInputs == {Position(30, 3000), Position(50, 5000)}

InitCycle == InitWith(DefaultConfig, NewPositionManager)

NextCycle ==
    \/ Cycle
    \/ Tick
    \/ \E p \in CycleInputs : UpdateLighterPosition("BTC", p)
    \/ CalculateTotalLeverage
    \/ \E id \in DOMAIN activeOrders : UpdateOrderStatus(id, "FILLED", config.OrderSize)

SpecCycle == InitCycle /\ [][NextCycle]_vars

\* C2: a cycle that runs while the highest venue leverage is at or above the
\* emergency threshold runs the emergency-close handler and leaves the phase
\* EMERGENCY_CLOSING, whatever the phase was before.
C2_EmergencyAlwaysDispatched ==
    (lastOp.op = "executeCycle" /\ lastOp.preMax >= config.EmergencyLeverage) =>
        /\ lastOp.handler = "ExecuteEmergencyClosing"
        /\ currentPhase = "EMERGENCY_CLOSING"

\* C4: once the cycles have found the highest leverage in the stop band (at or
\* above the maximum, below the emergency threshold) for longer than
\* StopDuration, a cycle of that run has evaluated START_CLOSING and run the
\* closing handler.
C4_StopEscalatesToClosing ==
    (lastOp.op = "executeCycle" /\ stopBand.since # ZeroTime
        /\ now - stopBand.since > config.StopDuration) =>
        stopBand.escalated

\* ------------------------------------------------ specification: the tracker

\* The sum of the sizes of the hedge invocations in hedges.
HedgedSize(hedges) ==
    SumOver([i \in 1..Len(hedges) |-> hedges[i].size], 1..Len(hedges))

\* No partial fill of the order was seen yet.
NoPartial == [last |-> 0, sum |-> 0, mono |-> TRUE]

\* The record of an order's partial fills after the tracker found report for
\* order and made the hedge invocations hedges: the last cumulative filled
\* size, the sum of the sizes hedged, and whether the observations so far
\* were PARTIAL with growing filled sizes (the sizes are kept only while they
\* were, and the record only while the order is active).
PartialSeen(log, order, report, hedges) ==
    IF ~Changed(order, report) THEN log
    ELSE IF report[1] \in {"FILLED", "CANCELLED"} THEN MapDel(log, order.ID)
    ELSE IF order.ID \in DOMAIN log /\ ~log[order.ID].mono THEN log
    ELSE IF report[1] = "PARTIAL"
            /\ report[2] > (IF order.ID \in DOMAIN log THEN log[order.ID].last ELSE 0)
    THEN MapPut(log, order.ID,
                [last |-> report[2],
                 sum |-> (IF order.ID \in DOMAIN log THEN log[order.ID].sum ELSE 0)
                         + HedgedSize(hedges),
                 mono |-> TRUE])
    ELSE MapPut(log, order.ID, [NoPartial EXCEPT !.mono = FALSE])

\* The taker venue's behaviour towards one hedge: it refuses the first fails
\* orders, and the context is cancelled during the wait after attempt cancelAt
\* (never when 0).
HedgeOracles ==
    [fails : 0..MaxRetryAttempts, cancelAt : 0..(MaxRetryAttempts - 1)]

\* What the tracker's check of an order returned, with what it found: the
\* order, whether its status or filled size had changed, the invocations of
\* the hedge executor, the cumulative filled size reported, the sum of the
\* sizes hedged for the order at its earlier PARTIAL observations, and the
\* sizes of both venues' positions before.
CheckDone(r, order, report) ==
    /\ Commit(r.st)
    /\ lastOp' = [op |-> "checkOrderStatus", err |-> r.err, order |-> order,
                  changed |-> Changed(order, report),
                  newStatus |-> report[1],
                  hedges |-> r.st.hedges,
                  filled |-> report[2],
                  hedgedBefore |-> (IF order.ID \in DOMAIN hedgeLog
                                    THEN hedgeLog[order.ID].sum ELSE 0),
                  before |-> [v \in Venues |-> SizeIn(ledger, v, order.Symbol)],
                  ledgerKept |-> (r.st.ledger = ledger)]
    /\ hedgeLog' = PartialSeen(hedgeLog, order, report, r.st.hedges)
    /\ UNCHANGED <<pmReaders, held, heldSeen, lastRisk, stopBand, now, config, monitor, loop, ctx, life>>
    /\ UNCHANGED <<snapshot, snapshotSeen>>

\* One step of checkActiveOrders: checkOrderStatus for an active order.  The
\* venue reports a status and a filled size; the taker venue's behaviour is
\* drawn where a hedge order can be placed, for a FILLED report.
CheckOrderStatus(id) ==
    \E report \in StatusReports \cup {getOrderStatus(heap[activeOrders[id]])} :
        \E o \in (IF report[1] = "FILLED" THEN HedgeOracles
                  ELSE {[fails |-> 0, cancelAt |-> 0]}) :
            CheckDone(checkOrderStatus(St, config, GetActiveOrdersIn(St)[id], report,
                                       o, now),
                      heap[activeOrders[id]], report)

\* The strategy started with or without the fast executor, and the maker
\* venue's BTC position booked before the first order.
InitTracker ==
    \E fast \in BOOLEAN, bp \in LedgerInputs :
        InitWith([DefaultConfig EXCEPT !.EnableFastExecution = fast],
                 LedgerWith(Position(0, 0), bp))

NextTracker ==
    \/ OpeningStep
    \/ \E id \in DOMAIN activeOrders : CheckOrderStatus(id)

SpecTracker == InitTracker /\ [][NextTracker]_vars

\* C10: when the tracker finds an active order changed to FILLED, it invokes
\* the hedge executor once, for the order's full size, and if the hedge
\* succeeds both venues' positions of the order's symbol have moved: the maker
\* venue's in the order's direction, the taker venue's in the opposite one.
C10_FilledOrderHedgedAndBooked ==
    (lastOp.op = "checkOrderStatus" /\ lastOp.changed /\ lastOp.newStatus = "FILLED") =>
        /\ Len(lastOp.hedges) = 1
        /\ lastOp.hedges[1].size = lastOp.order.Size
        /\ lastOp.hedges[1].ok =>
             LET dir == IF lastOp.order.Side = "BUY" THEN 1 ELSE -1
                 s == lastOp.order.Symbol
             IN /\ (SizeIn(ledger, "binance", s) - lastOp.before["binance"]) * dir > 0
                /\ (SizeIn(ledger, "lighter", s) - lastOp.before["lighter"]) * dir < 0

\* C11: while the tracker sees one order PARTIAL with growing cumulative
\* filled sizes, each hedge it requests is for the newly filled increment, so
\* the sizes hedged add up to the last cumulative filled size.
C11_PartialHedgesIncrement ==
    (/\ lastOp.op = "checkOrderStatus" /\ lastOp.changed
     /\ lastOp.newStatus = "PARTIAL"
     /\ lastOp.order.ID \in DOMAIN hedgeLog
     /\ hedgeLog[lastOp.order.ID].mono) =>
        /\ Len(lastOp.hedges) = 1
        /\ lastOp.hedges[1].size =
               hedgeLog[lastOp.order.ID].last - lastOp.order.FilledSize
        /\ hedgeLog[lastOp.order.ID].sum = hedgeLog[lastOp.order.ID].last

\* C12: when the tracker finds an active order changed to CANCELLED, the order
\* is no longer in the registry, no hedge is invoked and no order is placed on
\* either venue, and the ledger is as it was.
C12_CancelledRemovedUnhedged ==
    (lastOp.op = "checkOrderStatus" /\ lastOp.changed /\ lastOp.newStatus = "CANCELLED") =>
        /\ lastOp.order.ID \notin DOMAIN activeOrders
        /\ lastOp.hedges = <<>>
        /\ placed = <<>>
        /\ lastOp.ledgerKept

\* A cancellation of a partly filled order was found.
C12_Witness ==
    /\ lastOp.op = "checkOrderStatus" /\ lastOp.changed
    /\ lastOp.newStatus = "CANCELLED"
    /\ lastOp.order.FilledSize > 0
    /\ ~lastOp.err

\* ------------------------------------------------ the hedge executor alone

\* The fills handed to a hedge executor: the maker orders of the opening
\* manager (BTC SELL, ETH BUY) and of the closing manager (either side of
\* either symbol), for the whole order or a part of it, at the order's price
\* (0 when the manager set none).
HedgeSides == {"BUY", "SELL"}
HedgeSizes == {400, 1000}
HedgePrices == {0, 1000, 1002}
\* The taker venue's price when the hedge is made.
ReferencePrices == {1000}

\* Whether price is further from the reference price ref than
\* MaxSlippagePercent, 0.1% or 1 in a thousand.
PriceDeviates(price, ref) == Abs(price - ref) * 1000 > ref * MaxSlippagePerMille

\* Whether a fill of (symbol, side) on exchange has no hedge in the
\* convention: the maker venue's BTC SELL and ETH BUY are hedged by the taker
\* venue's BTC BUY and ETH SELL, and the other way round.
OutsideConvention(exchange, symbol, side) ==
    IF exchange = "binance"
    THEN ~((symbol = "BTC" /\ side = "SELL") \/ (symbol = "ETH" /\ side = "BUY"))
    ELSE ~((symbol = "BTC" /\ side = "BUY") \/ (symbol = "ETH" /\ side = "SELL"))

\* What a hedge executor returned for fill, with the reference price ref and
\* the taker venue's behaviour o.
HedgeDone(r, executor, fill, ref, o) ==
    /\ Commit(r.st)
    /\ lastOp' = [op |-> executor, err |-> r.err, fill |-> fill, ref |-> ref,
                  o |-> o, hedges |-> r.st.hedges]
    /\ UNCHANGED <<pmReaders, held, heldSeen, lastRisk, stopBand, hedgeLog, now, config, monitor, loop, ctx, life>>
    /\ UNCHANGED <<snapshot, snapshotSeen>>

\* ExecuteFastHedge for a fill of a maker-venue order.
FastHedge ==
    \E symbol \in Symbols, side \in HedgeSides, size \in HedgeSizes,
       price \in HedgePrices, ref \in ReferencePrices, o \in HedgeOracles :
        HedgeDone(ExecuteFastHedge(St, symbol, side, size, price, o),
                  "ExecuteFastHedge",
                  [exchange |-> "binance", symbol |-> symbol, side |-> side,
                   size |-> size, price |-> price],
                  ref, o)

\* executeHedgeTrade for a fill of an order of either venue.
HedgeTrade ==
    \E exchange \in Venues, symbol \in Symbols, side \in HedgeSides,
       size \in HedgeSizes, ref \in ReferencePrices :
        HedgeDone(executeHedgeTrade(St, [ActiveOrder(1, exchange, symbol, side, size, now)
                                            EXCEPT !.Status = "FILLED",
                                                   !.FilledSize = size]),
                  "executeHedgeTrade",
                  [exchange |-> exchange, symbol |-> symbol, side |-> side,
                   size |-> size, price |-> 0],
                  ref, [fails |-> 0, cancelAt |-> 0])

InitHedge == InitWith(DefaultConfig, NewPositionManager)

NextHedge ==
    \/ FastHedge
    \/ HedgeTrade

SpecHedge == InitHedge /\ [][NextHedge]_vars

\* C13: every order ExecuteFastHedge places on the taker venue is for the
\* fill's symbol and on the side opposite to the fill's, also for the fills of
\* closing orders.
C13_HedgeOppositeToFill ==
    lastOp.op = "ExecuteFastHedge" =>
        \A i \in 1..Len(placed) :
            /\ placed[i].venue = "lighter"
            /\ placed[i].symbol = lastOp.fill.symbol
            /\ placed[i].side # lastOp.fill.side

\* C14: for a fill outside the hedge convention a hedge executor returns an
\* error, places no order, and does not report a successful hedge.
C14_UnsupportedPairRejected ==
    (/\ lastOp.op \in {"ExecuteFastHedge", "executeHedgeTrade"}
     /\ OutsideConvention(lastOp.fill.exchange, lastOp.fill.symbol, lastOp.fill.side)) =>
        /\ lastOp.err
        /\ placed = <<>>
        /\ \A i \in 1..Len(lastOp.hedges) : ~lastOp.hedges[i].ok

\* C15: with price protection enabled, ExecuteFastHedge returns an error,
\* reports no success and places no order when the fill's price is further
\* from the reference price than the maximum slippage.
C15_PriceProtectionRejects ==
    (/\ lastOp.op = "ExecuteFastHedge"
     /\ EnablePriceProtection
     /\ PriceDeviates(lastOp.fill.price, lastOp.ref)) =>
        /\ lastOp.err
        /\ placed = <<>>
        /\ \A i \in 1..Len(lastOp.hedges) : ~lastOp.hedges[i].ok

\* C16: one ExecuteFastHedge places at most MaxRetryAttempts orders on the
\* taker venue, none after an accepted one, and when the venue refuses
\* MaxRetryAttempts orders it returns an error after exactly that many.
C16_RetryBounded ==
    lastOp.op = "ExecuteFastHedge" =>
        /\ Len(placed) <= MaxRetryAttempts
        /\ Len(lastOp.hedges) = 1
        /\ lastOp.hedges[1].attempts = Len(placed)
        /\ \A i \in 1..Len(placed) : placed[i].ok => i = Len(placed)
        /\ (Len(placed) > 0 /\ placed[Len(placed)].ok) => ~lastOp.err
        /\ (Len(placed) > 0 /\ ~placed[Len(placed)].ok) => lastOp.err
        /\ (lastOp.o.fails >= MaxRetryAttempts /\ lastOp.o.cancelAt = 0) =>
               /\ lastOp.err
               /\ ~lastOp.hedges[1].ok
               /\ Len(placed) = MaxRetryAttempts

\* Every attempt was refused, and one call succeeded at a retry.
C16_Witness ==
    /\ lastOp.op = "ExecuteFastHedge"
    /\ lastOp.o.cancelAt = 0
    /\ lastOp.o.fails = MaxRetryAttempts
    /\ Len(placed) = MaxRetryAttempts
    /\ lastOp.err

\* C17: when the context is cancelled during the wait after a refused attempt,
\* ExecuteFastHedge makes no further attempt and returns the context's error.
C17_CancelStopsRetry ==
    (/\ lastOp.op = "ExecuteFastHedge"
     /\ lastOp.o.cancelAt > 0
     /\ lastOp.o.cancelAt <= lastOp.o.fails
     /\ lastOp.o.cancelAt < MaxRetryAttempts) =>
        /\ lastOp.err
        /\ Len(placed) = lastOp.o.cancelAt
        /\ \A i \in 1..Len(placed) : ~placed[i].ok
        /\ lastOp.hedges[1].result = "cancelled"

\* The context was cancelled after the second refused attempt.
C17_Witness ==
    /\ lastOp.op = "ExecuteFastHedge"
    /\ lastOp.o.cancelAt = 2
    /\ lastOp.o.fails = MaxRetryAttempts
    /\ Len(placed) = 2
    /\ lastOp.err

\* ------------------------------------------------------ the tracker's loop

\* The orders in which a tick can go through the ids S: GetActiveOrders fills
\* the snapshot by ranging over a map.
Orderings(S) ==
    {ids \in [1..Cardinality(S) -> S] :
        \A i, j \in 1..Cardinality(S) : i # j => ids[i] # ids[j]}

\* What the venues do for one order during a tick: the status query's answer
\* and, where a hedge follows, the taker venue accepting the first order or
\* refusing every one.
MonitorAnswers ==
    {[report |-> rep, o |-> [fails |-> 0, cancelAt |-> 0]] :
        rep \in {<<"PENDING", 0>>, <<"FILLED", 1000>>, <<"CANCELLED", 0>>, QueryError}}
    \cup {[report |-> <<"FILLED", 1000>>,
           o |-> [fails |-> MaxRetryAttempts, cancelAt |-> 0]]}

\* What a tick of the tracker's loop left.
TickDone(r) ==
    /\ Commit(r.st)
    /\ lastOp' = [op |-> "checkActiveOrders", err |-> r.err,
                  checked |-> r.st.checked,
                  snapshot |-> DOMAIN activeOrders,
                  ledgerKept |-> (r.st.ledger = ledger)]
    /\ monitor' = monitorLoopAfterTick(r.err)
    /\ UNCHANGED <<pmReaders, held, heldSeen, lastRisk, stopBand, hedgeLog, now, config, loop, ctx, life>>
    /\ UNCHANGED <<snapshot, snapshotSeen>>

\* monitorLoop's ticker case: one checkActiveOrders.
MonitorTick ==
    /\ monitor = "running"
    /\ \E ids \in Orderings(DOMAIN activeOrders),
          answers \in [DOMAIN activeOrders -> MonitorAnswers] :
        TickDone(checkActiveOrders(St, config, ids, answers, now))

\* monitorLoop's ctx.Done / stopChan case: the loop returns.
MonitorStop ==
    /\ monitor = "running"
    /\ monitor' = "stopped"
    /\ placed' = <<>>
    /\ lastOp' = [op |-> "Stop", err |-> FALSE, writes |-> <<>>]
    /\ UNCHANGED ledgerVars
    /\ UNCHANGED orderVars
    /\ UNCHANGED <<config, currentPhase, lastStopTime, lastTradeTime, stats, hb, loop, ctx, life, now>>

InitMonitor ==
    \E fast \in BOOLEAN, bp \in LedgerInputs :
        InitWith([DefaultConfig EXCEPT !.EnableFastExecution = fast],
                 LedgerWith(Position(0, 0), bp))

NextMonitor ==
    \/ OpeningStep
    \/ MonitorTick
    \/ MonitorStop

SpecMonitor == InitMonitor /\ [][NextMonitor]_vars

\* C18: when the hedge of a FILLED order fails with its attempts exhausted,
\* the check of that order returns an error and the check of no other order
\* does because of it, the ledger is as it was, and the tracker's loop is
\* still running.
C18_HedgeFailureContained ==
    (/\ lastOp.op = "checkActiveOrders"
     /\ \E i \in 1..Len(lastOp.checked) : lastOp.checked[i].exhausted) =>
        /\ \A i \in 1..Len(lastOp.checked) :
               lastOp.checked[i].err <=>
                   (lastOp.checked[i].exhausted \/ lastOp.checked[i].report = QueryError)
        /\ lastOp.ledgerKept
        /\ monitor = "running"
        /\ ENABLED MonitorTick

\* A tick in which the first order's hedge failed and the second order, FILLED
\* too, was hedged.
C18_Witness ==
    /\ lastOp.op = "checkActiveOrders"
    /\ Len(lastOp.checked) = 2
    /\ lastOp.checked[1].exhausted /\ lastOp.checked[1].err
    /\ lastOp.checked[2].report[1] = "FILLED" /\ ~lastOp.checked[2].err

\* C19: a tick checks every order of its snapshot, whatever the checks of the
\* other orders returned, and processes it (an order reported FILLED or
\* CANCELLED is no longer active); checkActiveOrders returns no error.
C19_TickChecksEveryOrder ==
    lastOp.op = "checkActiveOrders" =>
        /\ ~lastOp.err
        /\ Len(lastOp.checked) = Cardinality(lastOp.snapshot)
        /\ {lastOp.checked[i].id : i \in 1..Len(lastOp.checked)} = lastOp.snapshot
        /\ \A i \in 1..Len(lastOp.checked) :
               lastOp.checked[i].report[1] \in {"FILLED", "CANCELLED"} =>
                   lastOp.checked[i].id \notin DOMAIN activeOrders

\* A tick whose first check failed at the status query and whose second
\* found the order CANCELLED.
C19_Witness ==
    /\ lastOp.op = "checkActiveOrders"
    /\ Len(lastOp.checked) = 2
    /\ lastOp.checked[1].report = QueryError /\ lastOp.checked[1].err
    /\ lastOp.checked[2].report[1] = "CANCELLED" /\ ~lastOp.checked[2].err

\* C20: the opening manager places its order for the symbol whose maker-venue
\* position is smaller in absolute size, for BTC when the two are equal; a
\* symbol without a position counts as size 0.
C20_OpeningSelectsSmaller ==
    lastOp.op = "ExecuteOpeningLogic" =>
        /\ Len(placed) = 1
        /\ placed[1].venue = "binance"
        /\ placed[1].symbol =
               (IF Abs(lastOp.before["BTC"]) < Abs(lastOp.before["ETH"]) THEN "BTC"
                ELSE IF Abs(lastOp.before["ETH"]) < Abs(lastOp.before["BTC"]) THEN "ETH"
                ELSE "BTC")
        /\ ~lastOp.err => \E id \in DOMAIN activeOrders :
                              heap[activeOrders[id]].Symbol = placed[1].symbol

\* ETH was selected against a short BTC position, with no ETH position booked.
C20_Witness ==
    /\ lastOp.op = "ExecuteOpeningLogic" /\ ~lastOp.err
    /\ lastOp.before["BTC"] < 0
    /\ "ETH" \notin DOMAIN ledger["binance"].Positions \/ lastOp.before["ETH"] = 0
    /\ placed[1].symbol = "ETH"

\* ----------------------------------------- specification: the closing manager

\* What a closing step returned: the maker venue's position sizes it found,
\* whether every position of both venues was zero, and the ids it registered.
ClosingDone(r) ==
    /\ Commit(r.st)
    /\ lastOp' = [op |-> "ExecuteClosingLogic", err |-> r.err,
                  writes |-> r.st.writes,
                  before |-> [s \in Symbols |-> SizeIn(ledger, "binance", s)],
                  allZero |-> allPositionsZeroIn(ledger),
                  registered |-> DOMAIN r.st.activeOrders \ DOMAIN activeOrders]
    /\ UNCHANGED <<pmReaders, held, heldSeen, lastRisk, stopBand, hedgeLog, now, config, monitor, loop, ctx, life>>
    /\ UNCHANGED <<snapshot, snapshotSeen>>

\* One closing step of the control loop: ExecuteClosingLogic.
ClosingStep ==
    /\ Cardinality(DOMAIN heap) < MaxOrders
    /\ \E answer \in VenueAnswers :
        ClosingDone(ExecuteClosingLogic(St, config, answer, now))

\* The configurations of the closing steps: the default one, and one whose
\* standard order size is smaller than a booked position.
ClosingConfigs == {DefaultConfig, [DefaultConfig EXCEPT !.OrderSize = 5]}

InitClosing == \E cfg \in ClosingConfigs : InitWith(cfg, NewPositionManager)

NextClosing ==
    \/ \E s \in Symbols, p \in OpeningInputs : UpdateBinancePosition(s, p)
    \/ \E p \in LedgerInputs : UpdateLighterPosition("BTC", p)
    \/ ClosingStep

SpecClosing == InitClosing /\ [][NextClosing]_vars

\* C21: when the maker venue's positions are not all zero, the order the
\* closing manager registers is for the symbol whose position is larger in
\* absolute size, for BTC when the two are equal, and on the side that
\* reduces that position: BUY for a short one, SELL for a long one.
C21_ClosingSelectsLarger ==
    (/\ lastOp.op = "ExecuteClosingLogic" /\ ~lastOp.err
     /\ \E s \in Symbols : lastOp.before[s] # 0) =>
        /\ Cardinality(lastOp.registered) = 1
        /\ \A id \in lastOp.registered :
               LET target == IF Abs(lastOp.before["ETH"]) > Abs(lastOp.before["BTC"])
                             THEN "ETH" ELSE "BTC"
               IN /\ heap[activeOrders[id]].Symbol = target
                  /\ heap[activeOrders[id]].Side =
                         (IF lastOp.before[target] < 0 THEN "BUY" ELSE "SELL")

\* An order to buy BTC was registered against a short BTC position, with no
\* ETH position.
C21_Witness ==
    /\ lastOp.op = "ExecuteClosingLogic" /\ ~lastOp.err
    /\ lastOp.before["BTC"] < 0 /\ lastOp.before["ETH"] = 0
    /\ \E id \in lastOp.registered :
           heap[activeOrders[id]].Symbol = "BTC" /\ heap[activeOrders[id]].Side = "BUY"

\* --------------------------------- specification: maker orders and their hedges

\* The maker venue's BTC position booked before the first step: none to
\* close, or a short one.
PlacementInputs == {Position(0, 0), Position(-4, -400)}

InitPlacement ==
    \E bp \in PlacementInputs : InitWith(DefaultConfig, LedgerWith(Position(0, 0), bp))

\* The control loop opens only while no order is active (canStartNewTrade).
NextPlacement ==
    \/ DOMAIN activeOrders = {} /\ OpeningStep
    \/ ClosingStep
    \/ \E id \in DOMAIN activeOrders : CheckOrderStatus(id)

SpecPlacement == InitPlacement /\ [][NextPlacement]_vars

\* The last operation was an opening or a closing step.
IsPlacementStep == lastOp.op \in {"ExecuteOpeningLogic", "ExecuteClosingLogic"}

\* The step registered exactly one order, PENDING with nothing filled, for
\* the one maker-venue order it placed.
RegisteredOnePending ==
    /\ Len(placed) = 1
    /\ placed[1].venue = "binance" /\ placed[1].ok
    /\ Cardinality(lastOp.registered) = 1
    /\ \A id \in lastOp.registered :
           /\ heap[activeOrders[id]].Status = "PENDING"
           /\ heap[activeOrders[id]].FilledSize = 0
           /\ heap[activeOrders[id]].Exchange = "binance"

\* Every taker-venue order was placed by the tracker's check of an order it
\* found PARTIAL or FILLED, for that order's symbol.
MirrorOnlyAfterFill ==
    (\E i \in 1..Len(placed) : placed[i].venue = "lighter") =>
        /\ lastOp.op = "checkOrderStatus" /\ lastOp.changed
        /\ lastOp.newStatus \in {"PARTIAL", "FILLED"}
        /\ \A i \in 1..Len(placed) :
               placed[i].venue = "lighter" /\ placed[i].symbol = lastOp.order.Symbol

\* C22 as stated: every opening or closing step places exactly one
\* maker-venue order and registers it as PENDING, places no taker-venue order,
\* and a taker-venue order is placed only after the tracker observed the maker
\* order PARTIAL or FILLED.
C22_StepPlacesOneMakerOrder ==
    /\ IsPlacementStep => RegisteredOnePending
    /\ MirrorOnlyAfterFill

\* C22: an opening or closing step places at most one maker-venue order and
\* no taker-venue order; when the maker venue accepts the order (and, for a
\* closing step, some position is not zero) the step places exactly one and
\* registers it as PENDING, otherwise it registers nothing; a taker-venue
\* order is placed only by the tracker's check that found the maker order
\* PARTIAL or FILLED.
C22_AcceptedStepPlacesOneMakerOrder ==
    /\ IsPlacementStep =>
          /\ Len(placed) <= 1
          /\ \A i \in 1..Len(placed) : placed[i].venue = "binance"
          /\ IF Len(placed) = 1 /\ placed[1].ok
             THEN RegisteredOnePending /\ ~lastOp.err
             ELSE lastOp.registered = {}
          /\ placed = <<>> <=>
                 (lastOp.op = "ExecuteClosingLogic" /\ lastOp.allZero)
    /\ MirrorOnlyAfterFill

\* The tracker found a registered closing order FILLED and placed its hedge.
C22_Witness ==
    /\ lastOp.op = "checkOrderStatus" /\ lastOp.newStatus = "FILLED"
    /\ lastOp.order.Side = "BUY" /\ lastOp.order.Symbol = "BTC"
    /\ Len(placed) = 1 /\ placed[1].venue = "lighter" /\ placed[1].ok

\* --------------------------------- specification: the balance of one symbol

\* The notional values of a symbol's position at a venue, the tolerances (in
\* percent) and the minimum adjustment amounts checkSymbolBalance is applied
\* to; 40% and 200 are the imbalance of 600 against 400.
BalanceValues == {0, 400, -400, 600, -600}
BalanceTolerances == {DefaultTolerancePercent, 40}
BalanceMinAdjusts == {DefaultMinAdjustAmount, 200}

\* A venue's positions with the symbol's position worth value.
PositionsWorth(symbol, value) ==
    [Positions |-> MapPut(EmptyMap, symbol, Position(value \div 100, value)),
     Leverage |-> 0]

\* checkSymbolBalance applied to the taker venue's value a and the maker
\* venue's value b of symbol.
CheckSymbolBalance ==
    \E symbol \in Symbols, a \in BalanceValues, b \in BalanceValues,
       tol \in BalanceTolerances, min \in BalanceMinAdjusts :
        /\ lastOp' = [op |-> "checkSymbolBalance", err |-> FALSE,
                      symbol |-> symbol, a |-> a, b |-> b,
                      tolerance |-> tol, minAdjust |-> min,
                      imbalance |->
                          checkSymbolBalance(
                              [tolerancePercent |-> tol, minAdjustAmount |-> min],
                              symbol, PositionsWorth(symbol, a), PositionsWorth(symbol, b))]
        /\ placed' = <<>>
        /\ UNCHANGED ledgerVars
        /\ UNCHANGED orderVars
        /\ UNCHANGED ctlVars
        /\ UNCHANGED now

InitBalance == InitWith(DefaultConfig, NewPositionManager)

NextBalance == CheckSymbolBalance

SpecBalance == InitBalance /\ [][NextBalance]_vars

\* C23: checkSymbolBalance computes expectedBalance = (|A|+|B|)/2, delta =
\* |A|-|B|, imbalancePercent = |delta|/expectedBalance*100 (0 when the
\* expected balance is 0), needsAdjustment = imbalancePercent > tolerance and
\* |delta| > minAdjust, both strict, and adjustmentAmount = |delta|/2 when an
\* adjustment is needed; 600 against 400 with tolerance 5 and minimum 50
\* gives 500, 200, 40, true, 100.
C23_ImbalanceArithmetic ==
    lastOp.op = "checkSymbolBalance" =>
        LET a == Abs(lastOp.a)
            b == Abs(lastOp.b)
            i == lastOp.imbalance
        IN /\ i.ExpectedBalance * 2 = a + b
           /\ i.ActualImbalance = a - b
           /\ IF a + b = 0 THEN i.ImbalancePercent = 0
              ELSE i.ImbalancePercent * (a + b) = Abs(a - b) * 200
           /\ i.NeedsAdjustment <=>
                  (i.ImbalancePercent > lastOp.tolerance /\ Abs(a - b) > lastOp.minAdjust)
           /\ i.NeedsAdjustment => i.AdjustmentAmount * 2 = Abs(a - b)
           /\ (/\ lastOp.a = 600 /\ lastOp.b = 400
               /\ lastOp.tolerance = 5 /\ lastOp.minAdjust = 50) =>
                  /\ i.ExpectedBalance = 500 /\ i.ActualImbalance = 200
                  /\ i.ImbalancePercent = 40 /\ i.NeedsAdjustment
                  /\ i.AdjustmentAmount = 100

\* The imbalance of 600 against 400 was computed with tolerance 40: at the
\* tolerance, no adjustment.
C23_Witness ==
    /\ lastOp.op = "checkSymbolBalance"
    /\ lastOp.a = 600 /\ lastOp.b = -400 /\ lastOp.tolerance = 40
    /\ lastOp.imbalance.ImbalancePercent = 40
    /\ ~lastOp.imbalance.NeedsAdjustment

\* The side of a venue's position of symbol in the hedge: the taker venue is
\* long BTC and short ETH, the maker venue short BTC and long ETH.
HedgeCorrectSide(venue, symbol) ==
    IF venue = "lighter"
    THEN (IF symbol = "BTC" THEN "BUY" ELSE "SELL")
    ELSE (IF symbol = "BTC" THEN "SELL" ELSE "BUY")

\* C24: every order a reconciliation pass issues is for an imbalance it
\* found, on the venue whose position of that symbol is smaller in absolute
\* value, in that venue's direction of the hedge and for half the difference;
\* the pass returns an error only when a venue refused an order.
C24_AdjustmentOnSmallerVenue ==
    lastOp.op = "ForceBalanceAdjustment" =>
        /\ Len(placed) <= Len(lastOp.status.Imbalances)
        /\ \A i \in 1..Len(placed) :
               LET m == lastOp.status.Imbalances[i]
               IN /\ Abs(m.LighterPosition) # Abs(m.BinancePosition)
                  /\ placed[i].venue = (IF Abs(m.LighterPosition) < Abs(m.BinancePosition)
                                        THEN "lighter" ELSE "binance")
                  /\ placed[i].symbol = m.Symbol
                  /\ placed[i].side = HedgeCorrectSide(placed[i].venue, m.Symbol)
                  /\ placed[i].amount * 2 = Abs(Abs(m.LighterPosition) - Abs(m.BinancePosition))
        /\ lastOp.err <=> (\E i \in 1..Len(placed) : ~placed[i].ok)
        /\ ~lastOp.err => Len(placed) = Len(lastOp.status.Imbalances)

\* A pass adjusted both symbols: the taker venue for BTC, the maker venue for
\* ETH.
C24_Witness ==
    /\ lastOp.op = "ForceBalanceAdjustment" /\ ~lastOp.err
    /\ Len(placed) = 2
    /\ placed[1].venue = "lighter" /\ placed[1].symbol = "BTC"
    /\ placed[2].venue = "binance" /\ placed[2].symbol = "ETH"

\* ------------------------------------------- specification: the daily limit

\* The configurations of this specification: the defaults, whose volume target
\* two trades of the order size reach, and one whose volume target takes
\* three.
DailyConfigs == {DefaultConfig, [DefaultConfig EXCEPT !.VolumeTarget = 3000]}

InitDaily == \E cfg \in DailyConfigs : InitWith(cfg, NewPositionManager)

NextDaily ==
    \/ Cycle
    \/ Tick
    \/ \E id \in DOMAIN activeOrders : UpdateOrderStatus(id, "FILLED", config.OrderSize)

SpecDaily == InitDaily /\ [][NextDaily]_vars

\* The cycle that just ran began with MaxDailyTrades trades recorded on its
\* day.
TradesReachedBeforeCycle ==
    /\ lastOp.op = "executeCycle"
    /\ config.ContinuousMode
    /\ config.MaxDailyTrades > 0
    /\ lastOp.preStats.DailyTrades >= config.MaxDailyTrades
    /\ isSameDay(lastOp.at, lastOp.preStats.DailyStartTime)

\* C25: in continuous mode with MaxDailyTrades > 0, a cycle that begins with
\* MaxDailyTrades trades recorded on the current day sets the phase to
\* DAILY_LIMIT_REACHED and places no order, whatever the daily volume is.
C25_DailyTradeLimitPauses ==
    TradesReachedBeforeCycle =>
        /\ currentPhase = "DAILY_LIMIT_REACHED"
        /\ placed = <<>>

\* The monitoring loop under its scheduling: the ticker keeps firing while the
\* loop runs, so cycles are run again and again (a cycle is always possible,
\* which makes this the weak fairness of Cycle), and the clock advances up to
\* the horizon.
SpecDailyLive == SpecDaily /\ WF_vars(Tick) /\ []<><<Cycle>>_vars

\* canStartNewTrade's daily-limit condition holds: opening is blocked.
PausedByDailyLimit ==
    /\ config.MaxDailyTrades > 0
    /\ ShouldPauseTradingForDay(stats, config.MaxDailyTrades)

\* The day of the daily statistics is over.
DayRolledOver == ~isSameDay(now, stats.DailyStartTime)

\* C26: when the loop is paused by the daily limit and the calendar day has
\* rolled over, the loop's own cycles eventually bring the daily trade counter
\* back below the limit (the reset of RecordTrade), so that a later cycle can
\* place an order again.
C26_PauseLiftsAfterRollover ==
    (PausedByDailyLimit /\ DayRolledOver) ~> ~PausedByDailyLimit

\* -------------------------------------- specification: the loops' shutdown

\* The caller of Start cancels the context.
Cancel ==
    /\ ctx = "live"
    /\ ctx' = "cancelled"
    /\ UNCHANGED <<ledgerVars, orderVars, placed, lastOp, now>>
    /\ UNCHANGED <<config, currentPhase, lastStopTime, lastTradeTime, stats, hb, monitor, loop, life>>

\* monitoringLoop's select, ticker case: one executeCycle.  The select takes
\* any case that is ready, so the ticker's case may be taken while the
\* context's is ready too.
ControlCycle ==
    /\ loop = "running"
    /\ Cycle

\* monitoringLoop's select, ctx.Done case.
ControlReturn ==
    /\ loop = "running"
    /\ ctx = "cancelled"
    /\ loop' = monitoringLoopAfterDone
    /\ placed' = <<>>
    /\ lastOp' = [op |-> "monitoringLoop", err |-> FALSE, writes |-> <<>>]
    /\ UNCHANGED <<ledgerVars, orderVars, now>>
    /\ UNCHANGED <<config, currentPhase, lastStopTime, lastTradeTime, stats, hb, monitor, ctx, life>>

\* monitorLoop's select, ctx.Done case.
TrackerReturn ==
    /\ ctx = "cancelled"
    /\ MonitorStop

InitLoops == InitWith(DefaultConfig, NewPositionManager)

NextLoops ==
    \/ ControlCycle
    \/ MonitorTick
    \/ Tick
    \/ Cancel
    \/ ControlReturn
    \/ TrackerReturn

SpecLoops == InitLoops /\ [][NextLoops]_vars

\* The loops under their scheduling: a cycle or tick comes back to its select,
\* where the context's case stays ready once the context is cancelled, and the
\* select takes a ready case at random, so the case is eventually taken.
SpecLoopsLive == SpecLoops /\ WF_vars(ControlReturn) /\ WF_vars(TrackerReturn)

EmergencyInputs == {Position(0, 0), Position(4, 400), Position(-6, -600)}

\* What an emergency close returned.
EmergencyDone(r) ==
    /\ Commit(r.st)
    /\ lastOp' = [op |-> "ExecuteEmergencyClosing", err |-> r.err,
                  writes |-> r.st.writes, ledgerKept |-> (r.st.ledger = ledger)]
    /\ UNCHANGED <<pmReaders, held, heldSeen, lastRisk, stopBand, hedgeLog, now, config, monitor, loop, ctx, life>>
    /\ UNCHANGED <<snapshot, snapshotSeen>>

\* executeCycle's EMERGENCY_CLOSE case: ExecuteEmergencyClosing.
EmergencyStep == EmergencyDone(ExecuteEmergencyClosing(setPhase(St, "EMERGENCY_CLOSING"), config))

InitEmergency == InitWith(DefaultConfig, NewPositionManager)

NextEmergency ==
    \/ \E s \in Symbols, p \in EmergencyInputs : UpdateBinancePosition(s, p)
    \/ \E s \in Symbols, p \in EmergencyInputs : UpdateLighterPosition(s, p)
    \/ EmergencyStep

SpecEmergency == InitEmergency /\ [][NextEmergency]_vars

\* The market orders of the last operation for symbol s on venue v.
MarketOrdersFor(v, s) ==
    {i \in 1..Len(placed) : placed[i].venue = v /\ placed[i].symbol = s}

C29_BalanceAdjustingLeftInCycle ==
    (/\ lastOp.op = "executeCycle"
     /\ lastOp.risk.evaluated
     /\ config.EnableHedgeBalancing) =>
        currentPhase # "BALANCE_ADJUSTING"

\* C30: the venue leverages the risk evaluation of a cycle reads are, for each
\* venue, the sum of |Value| over the equity for the positions the ledger holds
\* at that evaluation.
C30_RiskReadsCurrentLeverage ==
    (lastOp.op = "executeCycle" /\ lastOp.risk.evaluated) =>
        /\ lastOp.risk.status.LighterLeverage = lastOp.preLeverage["lighter"]
        /\ lastOp.risk.status.BinanceLeverage = lastOp.preLeverage["binance"]

\* ------------------------------------ specification: the hedge's delay

\* The taker venue's behaviours of this specification: the first attempt
\* accepted, or every attempt refused.
DelayOracles == {[fails |-> 0, cancelAt |-> 0], [fails |-> MaxRetryAttempts, cancelAt |-> 0]}

\* ExecuteFastHedge for a fill of a maker-venue order, with the clock: the
\* price validation takes validation ticks and the attempts take execution
\* ticks.
TimedFastHedge ==
    \E symbol \in Symbols, side \in HedgeSides, size \in HedgeSizes, o \in DelayOracles,
       validation \in 0..MaxTime, execution \in 0..MaxTime :
        /\ now + validation + execution <= MaxTime
        /\ LET r == ExecuteFastHedge(St, symbol, side, size, 1000, o)
           IN /\ Commit(r.st)
              /\ lastOp' = [op |-> "ExecuteFastHedge", err |-> r.err,
                            execCtx |-> ExecutionTimes(now, now + validation,
                                            now + validation + execution, ~r.err)]
        /\ now' = now + validation + execution
        /\ UNCHANGED <<pmReaders, held, heldSeen, lastRisk, stopBand, hedgeLog, config, monitor, loop, ctx, life>>
        /\ UNCHANGED <<snapshot, snapshotSeen>>

InitDelay == InitWith(DefaultConfig, NewPositionManager)

NextDelay ==
    \/ TimedFastHedge
    \/ Tick

SpecDelay == InitDelay /\ [][NextDelay]_vars

\* C31: the total delay recorded for a successful hedge is the completion time
\* minus the detection time, the instant read after the price validation.
C31_DelayFromDetection ==
    (lastOp.op = "ExecuteFastHedge" /\ lastOp.execCtx.Success) =>
        /\ lastOp.execCtx.StartTime <= lastOp.execCtx.DetectionTime
        /\ lastOp.execCtx.DetectionTime <= lastOp.execCtx.CompletionTime
        /\ lastOp.execCtx.TotalDelay =
               lastOp.execCtx.CompletionTime - lastOp.execCtx.DetectionTime

\* C32: the order a closing step submits to the maker venue is on the symbol
\* the step selected (the larger position, BTC on a tie) and on the side that
\* reduces that position: a BTC buy for a BTC short, an ETH sell for an ETH
\* long.
C32_ClosingOrderOnSelectedSymbol ==
    lastOp.op = "ExecuteClosingLogic" =>
        \A i \in 1..Len(placed) :
            LET target == IF Abs(lastOp.before["ETH"]) > Abs(lastOp.before["BTC"])
                          THEN "ETH" ELSE "BTC"
            IN /\ placed[i].venue = "binance"
               /\ placed[i].symbol = target
               /\ placed[i].side = (IF lastOp.before[target] < 0 THEN "BUY" ELSE "SELL")

\* C33: over an order's observations (PARTIAL ones, then FILLED), the sizes
\* the tracker has hedged for it add up to no more than the cumulative filled
\* size reported, and to the order's size once it is FILLED and every hedge
\* succeeded.
C33_HedgedWithinFilled ==
    (/\ lastOp.op = "checkOrderStatus" /\ lastOp.changed
     /\ lastOp.newStatus \in {"PARTIAL", "FILLED"}) =>
        LET done == SelectSeq(lastOp.hedges, LAMBDA h : h.ok)
            total == lastOp.hedgedBefore + HedgedSize(done)
        IN /\ total <= lastOp.filled
           /\ (lastOp.newStatus = "FILLED" /\ done = lastOp.hedges) =>
                  total = lastOp.order.Size

\* C34: a cycle that begins with the highest venue leverage at or above
\* MaxLeverage issues no position-increasing order: no opening order and no
\* adjustment order of the reconciler (the only orders such a cycle may issue
\* are the market orders of the emergency close).
C34_NoIncreaseAtLeverageLimit ==
    (lastOp.op = "executeCycle" /\ lastOp.preMax >= config.MaxLeverage) =>
        \A i \in 1..Len(placed) : placed[i].method = "MarketOrder"

\* ------------------------------------------ specification: start and stop

\* A call of Start, with the context the caller had or a new one.  A Start
\* that succeeds starts a goroutine for each loop, on the stop channels made at
\* construction.
StartCall ==
    \E fresh \in BOOLEAN :
        LET r == Started(life)
        IN /\ life' = r.life
           /\ loop' = IF r.started THEN "running" ELSE loop
           /\ monitor' = IF r.started THEN "running" ELSE monitor
           /\ ctx' = IF r.started /\ fresh THEN "live" ELSE ctx
           /\ placed' = <<>>
           /\ lastOp' = [op |-> "StartCall", err |-> r.err, before |-> life,
                         loops |-> <<loop, monitor>>]
           /\ UNCHANGED <<ledgerVars, orderVars, now>>
           /\ UNCHANGED <<config, currentPhase, lastStopTime, lastTradeTime, stats, hb>>

\* A call of Stop.
StopCall ==
    /\ life' = Stopped(life)
    /\ placed' = <<>>
    /\ lastOp' = [op |-> "StopCall", err |-> FALSE, before |-> life,
                  loops |-> <<loop, monitor>>]
    /\ UNCHANGED <<ledgerVars, orderVars, now>>
    /\ UNCHANGED <<config, currentPhase, lastStopTime, lastTradeTime, stats, hb, monitor, loop, ctx>>

\* monitoringLoop's select, stopChan case: a closed channel is ready.
ControlStopSeen ==
    /\ loop = "running"
    /\ life.stopChan > 0
    /\ loop' = "stopped"
    /\ placed' = <<>>
    /\ lastOp' = [op |-> "monitoringLoop", err |-> FALSE, writes |-> <<>>]
    /\ UNCHANGED <<ledgerVars, orderVars, now>>
    /\ UNCHANGED <<config, currentPhase, lastStopTime, lastTradeTime, stats, hb, monitor, ctx, life>>

\* monitorLoop's select, stopChan case.
TrackerStopSeen ==
    /\ life.monitorStopChan > 0
    /\ MonitorStop

InitLife == InitWith(DefaultConfig, NewPositionManager)

\* The calls and the loops' steps, while no call has panicked (a panic ends
\* the process).
NextLife ==
    \/ ~life.panicked /\ StartCall
    \/ ~life.panicked /\ StopCall
    \/ ~life.panicked /\ ControlCycle
    \/ ~life.panicked /\ MonitorTick
    \/ ~life.panicked /\ ControlStopSeen
    \/ ~life.panicked /\ TrackerStopSeen
    \/ ~life.panicked /\ Cancel
    \/ ~life.panicked /\ ControlReturn
    \/ ~life.panicked /\ TrackerReturn

SpecLife == InitLife /\ [][NextLife]_vars

\* C35: for any sequence of Start and Stop calls each stop channel is closed
\* at most once and no call panics; a Start on a running strategy returns an
\* error and a Stop on a stopped one returns, both leaving the lifecycle state
\* and the loops as they were.
C35_StopChannelsClosedOnce ==
    /\ ~life.panicked
    /\ life.stopChan <= 1
    /\ life.monitorStopChan <= 1
    /\ (lastOp.op = "StartCall" /\ lastOp.before.isRunning) =>
           (lastOp.err /\ life = lastOp.before /\ <<loop, monitor>> = lastOp.loops)
    /\ (lastOp.op = "StopCall" /\ ~lastOp.before.isRunning) =>
           (life = lastOp.before /\ <<loop, monitor>> = lastOp.loops)

\* C36: while the strategy reports that it is running and the context is not
\* cancelled, both loops are alive and their stop channels open, so that each
\* runs a cycle at its next tick.
C36_RunningMeansLoopsAlive ==
    (life.isRunning /\ ctx = "live") =>
        /\ loop = "running"
        /\ monitor = "running"
        /\ life.stopChan = 0
        /\ life.monitorStopChan = 0

\* ------------------------- specification: the opening gate and the tracker

\* What the cycle's step to the opening gate left: the registry, the time of
\* the last trade and the day's trades it found there.
GateDone(st) ==
    /\ Commit(st)
    /\ loop' = "opening"
    /\ lastOp' = [op |-> "canStartNewTrade", err |-> FALSE,
                  active |-> DOMAIN st.activeOrders,
                  lastTradeTime |-> st.lastTradeTime, at |-> now,
                  trades |-> st.stats.DailyTrades]
    /\ UNCHANGED <<pmReaders, held, heldSeen, lastRisk, stopBand, hedgeLog, now, config, monitor, ctx, life>>
    /\ UNCHANGED <<snapshot, snapshotSeen>>

\* The control loop's cycle up to the point where canStartNewTrade has
\* returned true; the tracker's loop runs beside it.
CycleToOpening ==
    /\ loop = "running"
    /\ \E accepts \in BOOLEAN :
        \E g \in {executeCycleToOpening(St, config,
                      [balance |-> [s \in Symbols |-> accepts]], now)} :
            g.reached /\ GateDone(g.st)

\* What the rest of the cycle left: the registry it found and the ids it
\* registered.
PlaceDone(r) ==
    /\ Commit(r.st)
    /\ loop' = "running"
    /\ lastOp' = [op |-> "executeContinuousOpening", err |-> r.err,
                  active |-> DOMAIN activeOrders,
                  registered |-> DOMAIN r.st.activeOrders \ DOMAIN activeOrders]
    /\ UNCHANGED <<pmReaders, held, heldSeen, lastRisk, stopBand, hedgeLog, now, config, monitor, ctx, life>>
    /\ UNCHANGED <<snapshot, snapshotSeen>>

\* The rest of that cycle: the opening order is placed and registered, the
\* trade recorded.
CycleOpeningPlace ==
    /\ loop = "opening"
    /\ Cardinality(DOMAIN heap) < MaxOrders
    /\ \E answer \in VenueAnswers :
        PlaceDone(executeContinuousOpeningPlace(St, config, answer, now))

InitGate == InitWith(DefaultConfig, NewPositionManager)

NextGate ==
    \/ CycleToOpening
    \/ CycleOpeningPlace
    \/ \E id \in DOMAIN activeOrders : CheckOrderStatus(id)
    \/ Tick

SpecGate == InitGate /\ [][NextGate]_vars

\* C37: a cycle gets to place an opening order only when it found the
\* registry without an active order, the trading interval elapsed since the
\* last trade and, with MaxDailyTrades > 0, fewer trades than that recorded;
\* the registry is still without an active order when the order is placed,
\* whatever the tracker did in between, and it never holds more than one
\* active order.
C37_OneActiveOpeningOrder ==
    /\ Cardinality(DOMAIN activeOrders) <= 1
    /\ lastOp.op = "canStartNewTrade" =>
           /\ lastOp.active = {}
           /\ \/ lastOp.lastTradeTime = ZeroTime
              \/ lastOp.at - lastOp.lastTradeTime >= config.TradingInterval
           /\ config.MaxDailyTrades > 0 => lastOp.trades < config.MaxDailyTrades
    /\ lastOp.op = "executeContinuousOpening" =>
           /\ lastOp.active = {}
           /\ Cardinality(lastOp.registered) <= 1

\* A second opening order registered, after the tracker removed the first and
\* the trading interval elapsed.
C37_Witness ==
    /\ lastOp.op = "executeContinuousOpening"
    /\ lastOp.registered # {}
    /\ Cardinality(DOMAIN heap) = 2
    /\ Cardinality(DOMAIN activeOrders) = 1

\* C38: the tracker hedges an order's FILLED transition once: the check that
\* finds the order changed to FILLED invokes the hedge executor once and
\* leaves the order out of the registry whether the hedge succeeded or failed,
\* no order in the registry is FILLED, so that no later check invokes it for
\* that order again, and a check that finds nothing changed invokes no hedge.
C38_FilledHedgedOnce ==
    /\ \A id \in DOMAIN activeOrders : heap[activeOrders[id]].Status # "FILLED"
    /\ lastOp.op = "checkOrderStatus" =>
           /\ ~lastOp.changed => (lastOp.hedges = <<>> /\ placed = <<>>)
           /\ (lastOp.changed /\ lastOp.newStatus = "FILLED") =>
                  /\ Len(lastOp.hedges) = 1
                  /\ lastOp.order.Status # "FILLED"
                  /\ lastOp.order.ID \notin DOMAIN activeOrders
                  /\ \E a \in DOMAIN heap :
                         heap[a].ID = lastOp.order.ID /\ heap[a].Status = "FILLED"

\* The hedge of a FILLED order failed with its attempts exhausted: the order
\* is out of the registry all the same.
C38_Witness ==
    /\ lastOp.op = "checkOrderStatus"
    /\ lastOp.changed
    /\ lastOp.newStatus = "FILLED"
    /\ lastOp.err
    /\ Len(lastOp.hedges) = 1
    /\ ~lastOp.hedges[1].ok
    /\ lastOp.order.ID \notin DOMAIN activeOrders

\* C39: the size of the order a closing step submits and registers is the
\* smaller of the selected position's absolute size and the standard order
\* size: it is no larger than the selected position, and the registered order,
\* filled whole, leaves that position with the sign it had or at zero.
C39_ClosingSizeWithinPosition ==
    (lastOp.op = "ExecuteClosingLogic" /\ ~lastOp.allZero) =>
        LET target == IF Abs(lastOp.before["ETH"]) > Abs(lastOp.before["BTC"])
                      THEN "ETH" ELSE "BTC"
            current == Abs(lastOp.before[target])
            size == IF current < config.OrderSize THEN current ELSE config.OrderSize
        IN /\ Len(placed) = 1
           /\ placed[1].amount = size
           /\ placed[1].amount <= current
           /\ ~lastOp.err => Cardinality(lastOp.registered) = 1
           /\ \A id \in lastOp.registered :
                  LET order == heap[activeOrders[id]]
                      after == lastOp.before[target] +
                                   (IF order.Side = "BUY" THEN order.Size
                                    ELSE 0 - order.Size)
                  IN /\ order.Symbol = target
                     /\ order.Size = size
                     /\ order.Size <= current
                     /\ after * lastOp.before[target] >= 0

\* A position of 6 was selected under a standard order size of 5: the order
\* registered is of size 5.
C39_Witness ==
    /\ lastOp.op = "ExecuteClosingLogic" /\ ~lastOp.err
    /\ lastOp.before["BTC"] = 6
    /\ config.OrderSize = 5
    /\ \E id \in lastOp.registered : heap[activeOrders[id]].Size = 5

====
